---- MODULE Spec2Model ----
(***************************************************************************)
(* Pose fusion and world-anchor lock of RestorationEngine                  *)
(* (src/mindar-app/utils/restoration-engine.js).                           *)
(*                                                                         *)
(* Fixed-point units of the model:                                         *)
(*   positions  millimetres along one axis (the y and z components of      *)
(*              every input are 0, so Vector3.distanceTo is |a - b|)       *)
(*   rotations  milliradians of yaw about one axis (all inputs are         *)
(*              rotations about the same axis, so angleTo is the angle     *)
(*              difference and slerp is interpolation of the angle)        *)
(*   time       milliseconds of performance.now()                          *)
(*   ratios     permille (confidence, alpha, gain ...)                     *)
(*   spread EMA micrometres, view-angle EMA millidegrees                   *)
(*   weights    px^2 / 100                                                 *)
(***************************************************************************)
EXTENDS Integers, Sequences, FiniteSets, TLC

\* ------------------------------------------------------------------ bounds
MaxTicks == 9        \* Spec: clock advances explored (of 100 ms each)
LockTicks == 8       \* SpecLock: clock advances explored
SteadyTicks == 101   \* SpecSteady: clock advances explored
FusionTicks == 3     \* SpecFusion: clock advances explored
AnchorTicks == 3     \* SpecAnchor: clock advances explored
RedetectTicks == 6   \* SpecRedetect: clock advances explored
HistoryTicks == 5    \* SpecHistory: clock advances explored
SingleTicks == 12    \* SpecSingle: clock advances explored
RecoverTicks == 6    \* SpecRecover: clock advances explored
QuatCalls == 3       \* SpecQuat: calls on the quaternion filters explored
PosCalls == 3        \* SpecPosition: calls on the position filter explored
ConvergenceUpdates == 200  \* SpecConverge: updates with the constant target
ConvergeTarget == 100000   \* SpecConverge: the constant target, micrometres

\* ------------------------------------------------------- engine constants
trackingTimeout == 800
detectionFps == 36
renderPoseTau == 28
renderPoseTauLocked == 32
maxTrustedLinearRate == 3          \* m/s = mm/ms
maxTrustedAngularRateX10 == 52     \* 5.2 rad/s, in mrad/ms times 10
lowTrustConfidenceThreshold == 580
lowTrustSpreadThreshold == 45000
obliqueRejectAngleDeg == 84
obliqueSoftLimitDeg == 70
obliqueWeightFloor == 120
adaptiveTuningEnabled == TRUE
minMarkerPerimeter == 30
fusionAgreeDist == 140
fusionTrackWindow == 240
singleMarkerMaxJump == 250
singleMarkerMode == FALSE
maxPoseErrorForFusion == 350
trackingPosDeadbandX10 == 35       \* 3.5 mm, times 10
trackingRotDeadband == 20
anchorIds == {}
anchorBoost == 3000
worldAnchorBuildupTarget == 6
worldAnchorMinMarkers == 2
worldAnchorCorrectionAlpha == 18
worldAnchorRotCorrectionAlpha == 15
worldAnchorBreakDistance == 180
worldAnchorBreakAngle == 628       \* pi / 5
worldAnchorMaxAgreeDist == 80
worldAnchorHoldPosEps == 6
worldAnchorHoldRotEps == 30
worldAnchorSingleMarkerPosAlpha == 45
worldAnchorSingleMarkerRotAlpha == 55
fastRepositionPosDelta == 32
fastRepositionRotDelta == 262      \* pi / 12
fastRepositionUnlockRatio == 550
markerOutlierDistance == 350
markerConfidenceThreshold == 150
validMarkerIds == {1, 2, 3, 4, 5, 6, 7, 8}

\* ------------------------------------------------------------- arithmetic
Abs(x) == IF x < 0 THEN -x ELSE x
Max(a, b) == IF a >= b THEN a ELSE b
Min(a, b) == IF a <= b THEN a ELSE b

\* n / d rounded to the nearest integer, d > 0
RoundDiv(n, d) == IF n >= 0 THEN (2 * n + d) \div (2 * d)
                            ELSE -((2 * (-n) + d) \div (2 * d))

\* Vector3.lerp with alpha = num / den
Lerp(a, b, num, den) == a + RoundDiv((b - a) * num, den)

PiMrad == 3142
TwoPiMrad == 6283

\* Quaternion.angleTo for two rotations about the common axis
AngleTo(a, b) ==
    LET d == Abs(a - b) % TwoPiMrad
    IN  IF d > PiMrad THEN TwoPiMrad - d ELSE d

\* yaw brought back into (-pi, pi]
WrapYaw(a) ==
    LET r == a % TwoPiMrad
    IN  IF r > PiMrad THEN r - TwoPiMrad ELSE r

\* Quaternion.slerp along the shortest arc (the callers flip the sign of the
\* target when the dot product is negative), alpha = num / den
Slerp(a, b, num, den) ==
    LET d == WrapYaw(b - a)
    IN  WrapYaw(a + RoundDiv(d * num, den))

\* 1000 * exp(-k / 16), k = 0 .. 112
ExpTable ==
    << 1000, 939, 882, 829, 779, 732, 687, 646, 607, 570, 535, 503, 472, 444,
       417, 392, 368, 346, 325, 305, 287, 269, 253, 238, 223, 210, 197, 185,
       174, 163, 153, 144, 135, 127, 119, 112, 105, 99, 93, 87, 82, 77, 72,
       68, 64, 60, 56, 53, 50, 47, 44, 41, 39, 36, 34, 32, 30, 28, 27, 25, 24,
       22, 21, 19, 18, 17, 16, 15, 14, 13, 13, 12, 11, 10, 10, 9, 9, 8, 8, 7,
       7, 6, 6, 6, 5, 5, 5, 4, 4, 4, 4, 3, 3, 3, 3, 3, 2, 2, 2, 2, 2, 2, 2, 2,
       2, 1, 1, 1, 1, 1, 1, 1, 1 >>

\* Math.exp(-num / den) in permille, den > 0, num >= 0
ExpNeg(num, den) ==
    LET k == (16 * num) \div den
    IN  IF k + 1 > Len(ExpTable) THEN 0 ELSE ExpTable[k + 1]

\* nullable references: null is the empty tuple, a value v is <<v>>
Null == << >>
Some(v) == << v >>
Val(r) == r[1]

RECURSIVE SumSeq(_)
SumSeq(s) == IF s = << >> THEN 0 ELSE Head(s) + SumSeq(Tail(s))

\* Array.prototype.sort with a numeric comparator (ascending)
SortAsc(s) == SortSeq(s, LAMBDA a, b : a < b)

\* pool.sort((a, b) => b.weight - a.weight): stable insertion by weight
RECURSIVE InsertByWeight(_, _)
InsertByWeight(c, s) ==
    IF s = << >> THEN << c >>
    ELSE IF Head(s).weight >= c.weight
         THEN << Head(s) >> \o InsertByWeight(c, Tail(s))
         ELSE << c >> \o s

RECURSIVE SortByWeight(_)
SortByWeight(s) ==
    IF s = << >> THEN << >>
    ELSE InsertByWeight(s[Len(s)], SortByWeight(SubSeq(s, 1, Len(s) - 1)))

\* ------------------------------------------------------------ observations
\* One MarkerObservation of the worker. x / yaw are the house pose the marker
\* implies (_poseToThreeJs followed by the marker offset composition), which
\* is taken as the input; hasPose is (m.rvec && m.tvec).
Obs(id, x, yaw, perimeter, poseError, confidence, cameraAngleDeg, source) ==
    [ id |-> id, x |-> x, yaw |-> yaw, perimeter |-> perimeter,
      poseError |-> poseError, confidence |-> confidence,
      cameraAngleDeg |-> cameraAngleDeg, source |-> source, hasPose |-> TRUE ]

BasePos == 100       \* pose of the board in the scenarios (mm, mrad)
BaseYaw == 300

Good(id, x, perimeter) == Obs(id, x, BaseYaw, perimeter, 0, 900, 0, "posit")

\* _markerOffsetsForId: the switch knows ids 1 .. 8, null otherwise
MarkerOffsetsForId(id) == IF id \in 1 .. 8 THEN Some(id) ELSE Null

\* ------------------------------------------------------ adaptive controller
AggregateNoise(confEMA, spreadEMA, viewEMA) ==
    LET confNoise == Max(0, 1000 - confEMA)
        spreadNoise == Max(0, Min(1200, spreadEMA \div 55))
        viewNoise == Max(0, Min(1100, viewEMA \div 80))
    IN  Max(0, Min(1350,
            (confNoise * 60 + spreadNoise * 30 + viewNoise * 10) \div 100))

\* this._x || d
OrDefault(v, d) == IF v = 0 THEN d ELSE v

\* the fields _calculateAdaptiveParameters reads
Tuning(outlierDistance, confidenceThreshold, enabled) ==
    [ trackWindow |-> fusionTrackWindow, outlierDistance |-> outlierDistance,
      confidenceThreshold |-> confidenceThreshold,
      softLimitDeg |-> obliqueSoftLimitDeg, rejectDeg |-> obliqueRejectAngleDeg,
      enabled |-> enabled ]

\* the fields as the constructor leaves them
ConstructedTuning ==
    Tuning(markerOutlierDistance, markerConfidenceThreshold, adaptiveTuningEnabled)

\* "Base values"
BaseParameters(c) ==
    [ adaptiveTrackWindow |-> Max(80, OrDefault(c.trackWindow, 240)),
      adaptiveOutlierDistance |-> Max(80, OrDefault(c.outlierDistance, 350)),
      adaptiveConfidenceThreshold |-> Max(10, OrDefault(c.confidenceThreshold, 150)),
      adaptiveObliqueSoftLimitDeg |-> Max(45, OrDefault(c.softLimitDeg, 70)) * 1000,
      adaptiveObliqueRejectDeg |-> Max(65, OrDefault(c.rejectDeg, 84)) * 1000 ]

\* variant: the outlier distance grows with the noise
ScaledParametersLoosening(base, aggregateNoise, viewEMA) ==
    [ base EXCEPT !.adaptiveOutlierDistance =
                      Max(180, Min(520, (@ * (1000 + (aggregateNoise * 18) \div 100))
                                            \div 1000)) ]

\* "Adaptive scaling based on noise/view conditions"
ScaledParameters(base, aggregateNoise, viewEMA) ==
    [ adaptiveTrackWindow |->
        Max(120, Min(460, (base.adaptiveTrackWindow
            * (1000 + (aggregateNoise * 45) \div 100)) \div 1000)),
      adaptiveOutlierDistance |->
        Max(180, Min(520, (base.adaptiveOutlierDistance
            * (1000 - (aggregateNoise * 18) \div 100)) \div 1000)),
      adaptiveConfidenceThreshold |->
        Max(80, Min(420, base.adaptiveConfidenceThreshold
            + (aggregateNoise * 8) \div 100
            + (IF viewEMA > 66000 THEN 20 ELSE 0))),
      adaptiveObliqueSoftLimitDeg |->
        Max(56000, Min(76000,
            base.adaptiveObliqueSoftLimitDeg - aggregateNoise * 8)),
      adaptiveObliqueRejectDeg |->
        Max(72000, Min(88000,
            base.adaptiveObliqueRejectDeg - (aggregateNoise * 65) \div 10)) ]

\* _calculateAdaptiveParameters(aggregateNoise) on an engine with fields c
CalculateAdaptiveParametersFor(c, aggregateNoise, viewEMA) ==
    IF ~c.enabled THEN BaseParameters(c)
    ELSE ScaledParameters(BaseParameters(c), aggregateNoise, viewEMA)

CalculateAdaptiveParameters(aggregateNoise, viewEMA) ==
    CalculateAdaptiveParametersFor(ConstructedTuning, aggregateNoise, viewEMA)

\* --------------------------------------------------------- candidate builder
ClampConfidence(m) == Max(10, Min(1000, m.confidence))
ClampCameraAngle(m) == Max(0, Min(90, m.cameraAngleDeg))

\* variant: the confidence gate is left out
PassesGatesAnyConfidence(m, ref, ap) ==
    /\ MarkerOffsetsForId(m.id) # Null
    /\ ~(m.perimeter < minMarkerPerimeter)
    /\ ~(m.poseError > maxPoseErrorForFusion)
    /\ ~(ClampCameraAngle(m) * 1000 > ap.adaptiveObliqueRejectDeg)
    /\ (ref # Null =>
          ~(Abs(m.x - Val(ref)) > ap.adaptiveOutlierDistance * 2))

\* the gates of the candidate loop: TRUE when the observation is pushed
PassesGates(m, ref, ap) ==
    /\ MarkerOffsetsForId(m.id) # Null
    /\ ~(m.perimeter < minMarkerPerimeter)
    /\ ~(m.poseError > maxPoseErrorForFusion)
    /\ ~(ClampCameraAngle(m) * 1000 > ap.adaptiveObliqueRejectDeg)
    /\ ~(ClampConfidence(m) < ap.adaptiveConfidenceThreshold)
    /\ (ref # Null =>
          ~(Abs(m.x - Val(ref)) > ap.adaptiveOutlierDistance * 2))

\* Math.exp(-x) is 0 in double precision once x is above 745: TRUE when
\* temporalW underflows to 0 (and the weight of the candidate with it)
TemporalUnderflow(m, ref, ap) ==
    /\ ref # Null
    /\ (m.x - Val(ref)) * (m.x - Val(ref))
          > 1490 * Max(1, ap.adaptiveTrackWindow)
                 * Max(1, ap.adaptiveTrackWindow)

\* the weight in px^2 / 100: every factor is positive, so the weight is
\* positive (at least one unit here) unless temporalW underflows
CandidateWeight(m, ref, ap) ==
    LET confidence == ClampConfidence(m)
        cameraAngleDeg == ClampCameraAngle(m)
        sourceBoost == IF m.source = "opencv-pnp" THEN 112
                       ELSE IF m.source = "mixed" THEN 106 ELSE 100
        anchorMult == IF m.id \in anchorIds THEN anchorBoost ELSE 1000
        temporalSigma == Max(1, ap.adaptiveTrackWindow)
        temporalDist == IF ref # Null THEN Abs(m.x - Val(ref)) ELSE 0
        temporalW == IF ref # Null
                     THEN ExpNeg(temporalDist * temporalDist,
                                 2 * temporalSigma * temporalSigma)
                     ELSE 1000
        errRatio == (m.poseError * 1000) \div Max(10, maxPoseErrorForFusion)
        robustErrW == 1000000 \div (1000 + (errRatio * errRatio) \div 1000)
        obliqueN == Max(0, Min(1000,
                      ((cameraAngleDeg * 1000 - 15000) * 1000)
                          \div Max(1000, ap.adaptiveObliqueSoftLimitDeg - 15000)))
        angleW == Max(obliqueWeightFloor,
                      1000 - (obliqueN * obliqueN * 9) \div 10000)
        w0 == (m.perimeter * m.perimeter * confidence) \div 1000
        w1 == (w0 * 1000) \div (1000 + m.poseError * 8)
        w2 == (w1 * sourceBoost) \div 100
        w3 == (w2 * anchorMult) \div 1000
        w4 == (w3 * temporalW) \div 1000
        w5 == (w4 * robustErrW) \div 1000
        w6 == (w5 * angleW) \div 1000
    IN  IF TemporalUnderflow(m, ref, ap) THEN 0 ELSE Max(1, w6 \div 100)

\* _poseToThreeJs: the quaternion of the rotation vector rvec (angle times
\* axis); below 1e-6 rad the axis is not formed and the identity is returned
PoseToThreeJs(rvec) ==
    LET angle == Abs(rvec)
    IN  IF angle >= 1 THEN (rvec \div angle) * angle ELSE 0

Candidate(m, ref, ap) ==
    [ id |-> m.id, position |-> m.x, quaternion |-> PoseToThreeJs(m.yaw),
      perimeter |-> m.perimeter, poseError |-> m.poseError,
      confidence |-> ClampConfidence(m),
      cameraAngleDeg |-> ClampCameraAngle(m),
      weight |-> CandidateWeight(m, ref, ap) ]

BuildCandidates(poseful, ref, ap) ==
    LET kept == SelectSeq(poseful, LAMBDA m : PassesGates(m, ref, ap))
    IN  [ i \in 1 .. Len(kept) |-> Candidate(kept[i], ref, ap) ]

\* ------------------------------------------------------------ robust fusion
WeightSum(pool) == SumSeq([ i \in 1 .. Len(pool) |-> pool[i].weight ])

WeightedCentroid(pool) ==
    RoundDiv(SumSeq([ i \in 1 .. Len(pool) |->
                        pool[i].position * pool[i].weight ]),
             WeightSum(pool))

\* variant: a pass that drops every candidate leaves the pool empty
ClipPassEmptying(pool, adaptiveOutlierDistance) ==
    LET centroid == WeightedCentroid(pool)
        sigmaSq == SumSeq([ i \in 1 .. Len(pool) |->
                      pool[i].weight * (pool[i].position - centroid)
                                     * (pool[i].position - centroid) ])
                      \div WeightSum(pool)
        Within(c) ==
            LET d == Abs(c.position - centroid)
            IN  /\ d <= adaptiveOutlierDistance
                /\ \/ d <= fusionAgreeDist
                   \/ 100 * d * d <= 484 * sigmaSq
    IN  SelectSeq(pool, Within)

\* one sigma-clipping pass; sigma * sigma = varSum / wSum is kept squared
ClipPass(pool, adaptiveOutlierDistance) ==
    LET centroid == WeightedCentroid(pool)
        wSum == WeightSum(pool)
        varSum == SumSeq([ i \in 1 .. Len(pool) |->
                     pool[i].weight * (pool[i].position - centroid)
                                    * (pool[i].position - centroid) ])
        sigmaSq == varSum \div wSum
        Within(c) ==
            LET d == Abs(c.position - centroid)
            IN  /\ d <= adaptiveOutlierDistance
                /\ \/ d <= fusionAgreeDist
                   \/ 100 * d * d <= 484 * sigmaSq
        filtered == SelectSeq(pool, Within)
    IN  IF Len(filtered) >= 1 THEN filtered ELSE pool

\* variant: the candidates are fused as they come, nothing is clipped
RobustPoolNoClip(candidates, adaptiveOutlierDistance) ==
    SortByWeight(candidates)

RobustPool(candidates, adaptiveOutlierDistance) ==
    LET pass1 == IF Len(candidates) > 1
                 THEN ClipPass(candidates, adaptiveOutlierDistance)
                 ELSE candidates
        pass2 == IF Len(pass1) > 1
                 THEN ClipPass(pass1, adaptiveOutlierDistance)
                 ELSE pass1
    IN  SortByWeight(pass2)

FusePosition(pool) ==
    IF Len(pool) = 1 THEN pool[1].position ELSE WeightedCentroid(pool)

\* sign-aligned weighted quaternion average; for rotations about one axis
\* that lie close together it is the weighted mean of the angles
FuseQuaternion(pool) ==
    IF Len(pool) = 1 THEN pool[1].quaternion
    ELSE RoundDiv(SumSeq([ i \in 1 .. Len(pool) |->
                            pool[i].quaternion * pool[i].weight ]),
                  WeightSum(pool))

\* _pushAndMedianPosition: the history after the push, and the value returned
PushHistory(history, size, pos) ==
    LET pushed == Append(history, pos)
    IN  IF Len(pushed) > size THEN Tail(pushed) ELSE pushed

MedianPosition(history, pos) ==
    IF Len(history) < 3 THEN pos
    ELSE SortAsc(history)[(Len(history) \div 2) + 1]

EMA(old, sample) == RoundDiv(old * 85 + sample * 15, 100)

AvgConfidence(pool) ==
    SumSeq([ i \in 1 .. Len(pool) |-> pool[i].confidence ])
        \div Max(1, Len(pool))

AvgSpread(pool, fusedPos) ==
    (SumSeq([ i \in 1 .. Len(pool) |-> Abs(pool[i].position - fusedPos) ])
        * 1000) \div Max(1, Len(pool))

AvgViewAngle(pool) ==
    (SumSeq([ i \in 1 .. Len(pool) |-> pool[i].cameraAngleDeg ]) * 1000)
        \div Max(1, Len(pool))

MaxSpread(pool) ==
    LET ds == { Abs(pool[i].position - pool[j].position) :
                  i \in 1 .. Len(pool), j \in 1 .. Len(pool) }
    IN  CHOOSE d \in ds \cup {0} : \A e \in ds : e <= d

\* -------------------------------------------------- world anchor, smoothing
AnchorState(active, buildup, pos, quat) ==
    [ active |-> active, buildup |-> buildup, pos |-> pos, quat |-> quat ]

AnchorReleased == AnchorState(FALSE, 0, Null, Null)

\* variant: the drift check never breaks the lock
AnchorDriftNoBreak(a, mp, mq, fusedPos, fusedQuat, poolLen) ==
    LET markerBoost == Min(2000, (poolLen * 1000) \div 2)
        posA == (worldAnchorCorrectionAlpha * markerBoost) \div 1000
        rotA == (worldAnchorRotCorrectionAlpha * markerBoost) \div 1000
    IN  AnchorState(TRUE, a.buildup,
          Some(Lerp(IF a.pos # Null THEN Val(a.pos) ELSE fusedPos,
                    fusedPos, posA, 1000)),
          Some(Slerp(IF a.quat # Null THEN Val(a.quat) ELSE fusedQuat,
                     fusedQuat, rotA, 1000)))

\* _applyTrackedPose, "else if (this._worldAnchorActive)": drift check against
\* the anchor reference, then either the break or the slow reference update
AnchorDrift(a, mp, mq, fusedPos, fusedQuat, poolLen) ==
    LET refPos == IF a.pos # Null THEN Val(a.pos) ELSE mp
        refQuat == IF a.quat # Null THEN Val(a.quat) ELSE mq
        driftDist == Abs(refPos - fusedPos)
        driftAngle == AngleTo(refQuat, fusedQuat)
        markerBoost == Min(2000, (poolLen * 1000) \div 2)
        posA == (worldAnchorCorrectionAlpha * markerBoost) \div 1000
        rotA == (worldAnchorRotCorrectionAlpha * markerBoost) \div 1000
    IN  IF driftDist > worldAnchorBreakDistance
           \/ driftAngle > worldAnchorBreakAngle
        THEN AnchorReleased
        ELSE AnchorState(TRUE, a.buildup,
               Some(Lerp(IF a.pos # Null THEN Val(a.pos) ELSE fusedPos,
                         fusedPos, posA, 1000)),
               Some(Slerp(IF a.quat # Null THEN Val(a.quat) ELSE fusedQuat,
                          fusedQuat, rotA, 1000)))

\* variant: the lock engages only above the build-up target
AnchorBuildupStrict(a, pool, fp, fq) ==
    LET n == Len(pool)
        buildup == IF n >= worldAnchorMinMarkers
                   THEN IF MaxSpread(pool) <= worldAnchorMaxAgreeDist
                        THEN a.buildup + 1
                        ELSE Max(0, a.buildup - 1)
                   ELSE Max(0, a.buildup - 2)
    IN  IF n >= worldAnchorMinMarkers /\ buildup > worldAnchorBuildupTarget
        THEN AnchorState(TRUE, buildup, Some(fp), Some(fq))
        ELSE AnchorState(a.active, buildup, a.pos, a.quat)

\* variant: one survivor is enough to count and to engage
AnchorBuildupAnyCount(a, pool, fp, fq) ==
    LET buildup == IF MaxSpread(pool) <= worldAnchorMaxAgreeDist
                   THEN a.buildup + 1
                   ELSE Max(0, a.buildup - 1)
    IN  IF buildup >= worldAnchorBuildupTarget
        THEN AnchorState(TRUE, buildup, Some(fp), Some(fq))
        ELSE AnchorState(a.active, buildup, a.pos, a.quat)

\* variant: every frame of two or more survivors counts, agreeing or not
AnchorBuildupCounting(a, pool, fp, fq) ==
    LET n == Len(pool)
        buildup == IF n >= worldAnchorMinMarkers
                   THEN a.buildup + 1
                   ELSE Max(0, a.buildup - 2)
    IN  IF n >= worldAnchorMinMarkers /\ buildup >= worldAnchorBuildupTarget
        THEN AnchorState(TRUE, buildup, Some(fp), Some(fq))
        ELSE AnchorState(a.active, buildup, a.pos, a.quat)

\* variant: the decay is not floored at 0
AnchorBuildupUnfloored(a, pool, fp, fq) ==
    LET n == Len(pool)
        buildup == IF n >= worldAnchorMinMarkers
                   THEN IF MaxSpread(pool) <= worldAnchorMaxAgreeDist
                        THEN a.buildup + 1
                        ELSE a.buildup - 1
                   ELSE a.buildup - 2
    IN  IF n >= worldAnchorMinMarkers /\ buildup >= worldAnchorBuildupTarget
        THEN AnchorState(TRUE, buildup, Some(fp), Some(fq))
        ELSE AnchorState(a.active, buildup, a.pos, a.quat)

\* _applyTrackedPose, "Build up anchor confidence": a is the anchor state
\* at that point of the frame, fp / fq the fused pose as smoothing left it
AnchorBuildup(a, pool, fp, fq) ==
    LET n == Len(pool)
        buildup == IF n >= worldAnchorMinMarkers
                   THEN IF MaxSpread(pool) <= worldAnchorMaxAgreeDist
                        THEN a.buildup + 1
                        ELSE Max(0, a.buildup - 1)
                   ELSE Max(0, a.buildup - 2)
    IN  IF n >= worldAnchorMinMarkers /\ buildup >= worldAnchorBuildupTarget
        THEN AnchorState(TRUE, buildup, Some(fp), Some(fq))
        ELSE AnchorState(a.active, buildup, a.pos, a.quat)

\* the pose the smoothing step steers to, and the pair of alphas it uses
Target(pos, quat) == [ pos |-> pos, quat |-> quat ]
Alpha(pos, rot) == [ pos |-> pos, rot |-> rot ]

\* "Deadband near rest"
Deadband(mp, mq, fusedPos, fusedQuat) ==
    Target(IF Abs(mp - fusedPos) * 10 < trackingPosDeadbandX10
           THEN mp ELSE fusedPos,
           IF AngleTo(mq, fusedQuat) < trackingRotDeadband
           THEN mq ELSE fusedQuat)

\* "Adaptive alpha": more markers and more motion give faster convergence
AdaptiveAlpha(n, posDelta, rotDelta) ==
    LET motionBoost == Max(Min(1000, (posDelta * 1000) \div 60),
                           Min(1000, (rotDelta * 1000) \div 314))
        markerCountFactor == Min(1000, 400 + n * 150)
    IN  Alpha(Min(550, 120 + (markerCountFactor * 150) \div 1000
                           + (motionBoost * 280) \div 1000),
              Min(650, 100 + (markerCountFactor * 150) \div 1000
                           + (motionBoost * 350) \div 1000))

\* "Noise-adaptive damping"
NoiseDamp(ema) ==
    LET spreadN == Min(1400, ema.spread \div 50)
        confN == Max(0, 1000 - ema.confidence)
        noiseLevel == Min(1600, (spreadN * 65 + confN * 105) \div 100)
    IN  Max(280, 1000 - (noiseLevel * 48) \div 100)

NoiseDamping(alpha, noiseDamp) ==
    Alpha((alpha.pos * noiseDamp) \div 1000,
          (alpha.rot * Max(300, (noiseDamp * 96) \div 100)) \div 1000)

LowTrust(n, ema, softLimitDeg) ==
    \/ n <= 1
    \/ ema.confidence < lowTrustConfidenceThreshold
    \/ ema.spread > lowTrustSpreadThreshold
    \/ ema.viewAngle > softLimitDeg

\* "clamp unrealistically fast innovations": target is the pose the deadband
\* left, posDelta / rotDelta the innovation measured before it
RateClamp(target, mp, mq, posDelta, rotDelta, lowTrust, measDt) ==
    LET maxPosStep == maxTrustedLinearRate * measDt
        maxRotStep == (maxTrustedAngularRateX10 * measDt) \div 10
    IN  Target(IF lowTrust /\ posDelta > maxPosStep /\ maxPosStep > 0
               THEN Lerp(mp, target.pos, maxPosStep, posDelta)
               ELSE target.pos,
               IF lowTrust /\ rotDelta > maxRotStep /\ maxRotStep > 0
               THEN Slerp(mq, target.quat, maxRotStep, rotDelta)
               ELSE target.quat)

\* "Extra damping in low-trust high-rate conditions"
ShockDamp(posDelta, rotDelta, measDt) ==
    LET linearRate == (posDelta * 1000) \div Max(1, measDt)
        angularRate == (rotDelta * 1000) \div Max(1, measDt)
        shock == Min(1500, (linearRate * 22) \div 100
                           + (angularRate * 13) \div 80)
    IN  Max(220, 1000 - (shock * 42) \div 100)

ShockDamping(alpha, lowTrust, shockDamp) ==
    IF lowTrust
    THEN Alpha((alpha.pos * shockDamp) \div 1000,
               (alpha.rot * Max(240, (shockDamp * 95) \div 100)) \div 1000)
    ELSE alpha

\* "Single-marker: more conservative"
SingleMarkerDamping(alpha, n) ==
    IF n = 1 THEN Alpha((alpha.pos * 750) \div 1000, (alpha.rot * 800) \div 1000)
    ELSE alpha

\* "In lock mode": the alphas
LockDamping(alpha, active, n) ==
    IF ~active THEN alpha
    ELSE IF n = 1
         THEN Alpha(Min((alpha.pos * 450) \div 1000,
                        worldAnchorSingleMarkerPosAlpha),
                    Min((alpha.rot * 480) \div 1000,
                        worldAnchorSingleMarkerRotAlpha))
         ELSE Alpha((alpha.pos * 450) \div 1000, (alpha.rot * 480) \div 1000)

\* "In lock mode": the innovation gate around the anchor reference
LockHold(target, a, mp, mq) ==
    LET lockRefPos == IF a.pos # Null THEN Val(a.pos) ELSE mp
        lockRefQuat == IF a.quat # Null THEN Val(a.quat) ELSE mq
    IN  Target(IF a.active
                  /\ Abs(lockRefPos - target.pos) < worldAnchorHoldPosEps
               THEN mp ELSE target.pos,
               IF a.active
                  /\ AngleTo(lockRefQuat, target.quat) < worldAnchorHoldRotEps
               THEN mq ELSE target.quat)

FastRepositionIntent(n, active, posDelta, rotDelta) ==
    \/ n >= 2 /\ (posDelta > fastRepositionPosDelta
                  \/ rotDelta > fastRepositionRotDelta)
    \/ active /\ (posDelta * 100 > fastRepositionPosDelta * 135
                  \/ rotDelta * 100 > fastRepositionRotDelta * 135)

FastRepositionBoost(alpha, intent) ==
    IF intent
    THEN Alpha(Max(alpha.pos, Min(780, (alpha.pos * 22) \div 10 + 90)),
               Max(alpha.rot, Min(820, alpha.rot * 2 + 80)))
    ELSE alpha

\* variant: the lock is released by the drift check alone
EarlyUnlockOff(intent, active, posDelta, rotDelta) == FALSE

\* "release lock earlier"
EarlyUnlock(intent, active, posDelta, rotDelta) ==
    /\ intent
    /\ active
    /\ \/ posDelta * 1000 > worldAnchorBreakDistance * fastRepositionUnlockRatio
       \/ rotDelta * 1000 > worldAnchorBreakAngle * fastRepositionUnlockRatio

\* posAlpha / rotAlpha as the smoothing step leaves them
SmoothingAlpha(n, active, posDelta, rotDelta, lowTrust, measDt, ema) ==
    FastRepositionBoost(
        LockDamping(
            SingleMarkerDamping(
                ShockDamping(
                    NoiseDamping(AdaptiveAlpha(n, posDelta, rotDelta),
                                 NoiseDamp(ema)),
                    lowTrust, ShockDamp(posDelta, rotDelta, measDt)),
                n),
            active, n),
        FastRepositionIntent(n, active, posDelta, rotDelta))

\* fusedPos / fusedQuat as the smoothing step leaves them
SmoothingTarget(a, mp, mq, fusedPos, fusedQuat, lowTrust, measDt) ==
    LockHold(RateClamp(Deadband(mp, mq, fusedPos, fusedQuat), mp, mq,
                       Abs(mp - fusedPos), AngleTo(mq, fusedQuat),
                       lowTrust, measDt),
             a, mp, mq)

\* the lerp / slerp towards the target and the anchor build-up that follows
SmoothingResult(a, mp, mq, pool, target, alpha, earlyUnlock) ==
    [ finalPos |-> Lerp(mp, target.pos, alpha.pos, 1000),
      finalQuat |-> Slerp(mq, target.quat, alpha.rot, 1000),
      anchor |-> AnchorBuildup(IF earlyUnlock THEN AnchorReleased ELSE a,
                               pool, target.pos, target.quat) ]

\* _applyTrackedPose, "if (!finalPos)": adaptive smoothing towards the fused
\* pose, fast-reposition unlock and anchor build-up. a is the anchor state
\* after AnchorDrift; ema holds the EMAs as already updated in this frame.
Smoothing(a, mp, mq, fusedPos, fusedQuat, pool, measDt, ema, softLimitDeg) ==
    LET n == Len(pool)
        posDelta == Abs(mp - fusedPos)
        rotDelta == AngleTo(mq, fusedQuat)
        lowTrust == LowTrust(n, ema, softLimitDeg)
    IN  SmoothingResult(a, mp, mq, pool,
            SmoothingTarget(a, mp, mq, fusedPos, fusedQuat, lowTrust, measDt),
            SmoothingAlpha(n, a.active, posDelta, rotDelta, lowTrust, measDt,
                           ema),
            EarlyUnlock(FastRepositionIntent(n, a.active, posDelta, rotDelta),
                        a.active, posDelta, rotDelta))

\* ------------------------------------------------------------- engine state
VARIABLES
    now,                        \* last reading of performance.now()
    isTracking,
    visible,                    \* modelGroup.visible
    modelPos,                   \* modelGroup.position
    modelQuat,                  \* modelGroup.quaternion
    poseTargetPosition,
    poseTargetQuaternion,
    hasFirstPose,
    framesWithoutDetection,
    lastTrackingTime,
    lastPoseMeasurementTime,
    lastRenderTime,
    positionHistory,
    positionHistorySize,
    measurementConfidenceEMA,
    poolSpreadEMA,
    viewAngleEMA,
    worldAnchorActive,
    worldAnchorPos,
    worldAnchorQuat,
    worldAnchorBuildup,
    workerBusy,                 \* a frame is with the worker
    lastDetectionTime,          \* when the last frame was posted
    last,                       \* observation: what the last call did
    agreeRun,                   \* observation: run of agreeing-pair frames
    gapRun,                     \* observation: run of frames without markers
    steadyRun,                  \* observation: run of frames at the steady pose
    qfCurrent,                  \* QuaternionFilter.current
    ekfQ,                       \* QuaternionEKF.q
    ekfPori,                    \* QuaternionEKF.P.ori
    pfCurrent,                  \* PredictivePositionFilter.current
    pfVelocity,                 \* PredictivePositionFilter.velocity
    pfLastMeasurement,          \* PredictivePositionFilter.lastMeasurement
    flast,                      \* observation: the last call on a filter
    fcalls,                     \* observation: calls made on the filters
    pfRun,                      \* observation: run of updates with one target
    tuning,                     \* the fields _calculateAdaptiveParameters reads
    tlast,                      \* observation: the last call on the tuning
    workerReady,
    bitmaps,                    \* createImageBitmap promises still pending
    inbox,                      \* messages on their way to the worker
    outbox,                     \* messages on their way to the main thread
    detector,                   \* the worker has built its detector
    worker,                     \* this.worker is set
    stopped,
    xrActive,
    initializing,               \* init() is suspended at one of its awaits
    rafId,
    pending,                    \* requestAnimationFrame callbacks not yet run
    rafCount                    \* observation: handles issued so far

engineVars ==
    << now, isTracking, visible, modelPos, modelQuat, poseTargetPosition,
       poseTargetQuaternion, hasFirstPose, framesWithoutDetection,
       lastTrackingTime, lastPoseMeasurementTime, lastRenderTime,
       positionHistory, positionHistorySize, measurementConfidenceEMA,
       poolSpreadEMA, viewAngleEMA, worldAnchorActive, worldAnchorPos,
       worldAnchorQuat, worldAnchorBuildup >>

tuningVars == << tuning, tlast >>

filterVars ==
    << qfCurrent, ekfQ, ekfPori, pfCurrent, pfVelocity, pfLastMeasurement,
       flast, fcalls, pfRun >>

trackingVars == << engineVars, workerBusy, lastDetectionTime, last, agreeRun,
                   gapRun, steadyRun >>

workerVars == << workerReady, bitmaps, inbox, outbox, detector >>

lifecycleVars ==
    << worker, stopped, xrActive, initializing, rafId, pending, rafCount >>

vars == << trackingVars, filterVars, tuningVars, workerVars, lifecycleVars >>

\* the engine fields as one record, the form the handlers work on
Engine ==
    [ isTracking |-> isTracking, visible |-> visible,
      modelPos |-> modelPos, modelQuat |-> modelQuat,
      poseTargetPosition |-> poseTargetPosition,
      poseTargetQuaternion |-> poseTargetQuaternion,
      hasFirstPose |-> hasFirstPose,
      framesWithoutDetection |-> framesWithoutDetection,
      lastTrackingTime |-> lastTrackingTime,
      lastPoseMeasurementTime |-> lastPoseMeasurementTime,
      lastRenderTime |-> lastRenderTime,
      positionHistory |-> positionHistory,
      positionHistorySize |-> positionHistorySize,
      measurementConfidenceEMA |-> measurementConfidenceEMA,
      poolSpreadEMA |-> poolSpreadEMA, viewAngleEMA |-> viewAngleEMA,
      worldAnchorActive |-> worldAnchorActive,
      worldAnchorPos |-> worldAnchorPos, worldAnchorQuat |-> worldAnchorQuat,
      worldAnchorBuildup |-> worldAnchorBuildup ]

Install(e, t) ==
    /\ now' = t
    /\ isTracking' = e.isTracking
    /\ visible' = e.visible
    /\ modelPos' = e.modelPos
    /\ modelQuat' = e.modelQuat
    /\ poseTargetPosition' = e.poseTargetPosition
    /\ poseTargetQuaternion' = e.poseTargetQuaternion
    /\ hasFirstPose' = e.hasFirstPose
    /\ framesWithoutDetection' = e.framesWithoutDetection
    /\ lastTrackingTime' = e.lastTrackingTime
    /\ lastPoseMeasurementTime' = e.lastPoseMeasurementTime
    /\ lastRenderTime' = e.lastRenderTime
    /\ positionHistory' = e.positionHistory
    /\ positionHistorySize' = e.positionHistorySize
    /\ measurementConfidenceEMA' = e.measurementConfidenceEMA
    /\ poolSpreadEMA' = e.poolSpreadEMA
    /\ viewAngleEMA' = e.viewAngleEMA
    /\ worldAnchorActive' = e.worldAnchorActive
    /\ worldAnchorPos' = e.worldAnchorPos
    /\ worldAnchorQuat' = e.worldAnchorQuat
    /\ worldAnchorBuildup' = e.worldAnchorBuildup

WithAnchor(e, a) ==
    [ e EXCEPT !.worldAnchorActive = a.active, !.worldAnchorBuildup = a.buildup,
               !.worldAnchorPos = a.pos, !.worldAnchorQuat = a.quat ]

NoFusion == [ candidates |-> << >>, pool |-> << >>, wSum |-> -1,
              fusedRaw |-> 0, fusedPos |-> 0, fusedQuat |-> 0, rawDist |-> -1,
              driftDist |-> -1, driftAngle |-> -1 ]

\* ------------------------------------------------------------------ handlers
\* variant: Step 6 sets the targets and never the model itself
UpdateTargetPoseOnly(e, finalPos, finalQuat) ==
    [ e EXCEPT !.poseTargetPosition = Some(finalPos),
               !.poseTargetQuaternion = Some(finalQuat),
               !.isTracking = TRUE,
               !.visible = TRUE ]

\* variant: Step 6 sets the pose and leaves isTracking and the visibility
UpdateTargetPoseHidden(e, finalPos, finalQuat) ==
    [ e EXCEPT !.poseTargetPosition = Some(finalPos),
               !.poseTargetQuaternion = Some(finalQuat),
               !.modelPos = finalPos,
               !.modelQuat = finalQuat ]

\* _applyTrackedPose, Step 6: the pose targets take the final pose; the model
\* itself is set only when there was no target (hasFirstPose is true here)
UpdateTargetPose(e, finalPos, finalQuat) ==
    LET noTarget == e.poseTargetPosition = Null
                    \/ e.poseTargetQuaternion = Null
                    \/ ~e.hasFirstPose
    IN  [ e EXCEPT !.poseTargetPosition = Some(finalPos),
                   !.poseTargetQuaternion = Some(finalQuat),
                   !.modelPos = IF noTarget THEN finalPos ELSE e.modelPos,
                   !.modelQuat = IF noTarget THEN finalQuat ELSE e.modelQuat,
                   !.isTracking = TRUE,
                   !.visible = TRUE ]

\* _applyTrackedPose: measDt in ms
MeasDt(e, t) ==
    IF e.lastPoseMeasurementTime > 0
    THEN Max(1000 \div 240, t - e.lastPoseMeasurementTime)
    ELSE 1000 \div Max(1, detectionFps)

\* _applyTrackedPose: the timers a frame with a pose resets
Stamped(e, t) ==
    [ e EXCEPT !.lastPoseMeasurementTime = t, !.lastTrackingTime = t,
               !.framesWithoutDetection = 0 ]

\* _applyTrackedPose: noise metrics and the thresholds derived from them
AdaptiveParameters(e) ==
    CalculateAdaptiveParameters(
        AggregateNoise(e.measurementConfidenceEMA, e.poolSpreadEMA,
                       e.viewAngleEMA),
        e.viewAngleEMA)

ReferencePosForGate(e) ==
    IF e.hasFirstPose
    THEN IF e.worldAnchorPos # Null /\ e.worldAnchorActive
         THEN e.worldAnchorPos ELSE Some(e.modelPos)
    ELSE Null

\* what a frame computed: the candidates, the surviving pool and the sum of
\* its weights (the divisor of Step 3), the fused pose
\* before (fusedRaw) and after (fusedPos) the median filter, and the distance
\* of either from the anchor reference when the frame found the lock active
Fusion(e, candidates, pool, fusedRaw, fusedQuat) ==
    LET fusedPos == MedianPosition(
                        PushHistory(e.positionHistory, e.positionHistorySize,
                                    fusedRaw),
                        fusedRaw)
        locked == e.hasFirstPose /\ e.worldAnchorActive
        refPos == IF e.worldAnchorPos # Null THEN Val(e.worldAnchorPos)
                  ELSE e.modelPos
        refQuat == IF e.worldAnchorQuat # Null THEN Val(e.worldAnchorQuat)
                   ELSE e.modelQuat
    IN  [ candidates |-> candidates, pool |-> pool,
          wSum |-> WeightSum(pool),
          fusedRaw |-> fusedRaw, fusedPos |-> fusedPos,
          fusedQuat |-> fusedQuat,
          rawDist |-> IF locked THEN Abs(refPos - fusedRaw) ELSE -1,
          driftDist |-> IF locked THEN Abs(refPos - fusedPos) ELSE -1,
          driftAngle |-> IF locked THEN AngleTo(refQuat, fusedQuat) ELSE -1 ]

\* "Temporal robustification": the EMAs of the quality metrics
QualityEMA(e, f) ==
    [ confidence |-> EMA(e.measurementConfidenceEMA, AvgConfidence(f.pool)),
      spread |-> EMA(e.poolSpreadEMA, AvgSpread(f.pool, f.fusedPos)),
      viewAngle |-> EMA(e.viewAngleEMA, AvgViewAngle(f.pool)) ]

\* "Temporal robustification": the engine with the history and the EMAs
Robustified(e, f, ema) ==
    [ e EXCEPT !.positionHistory =
                  PushHistory(e.positionHistory, e.positionHistorySize,
                              f.fusedRaw),
               !.measurementConfidenceEMA = ema.confidence,
               !.poolSpreadEMA = ema.spread,
               !.viewAngleEMA = ema.viewAngle ]

\* "Guard: reject wild single-marker jumps"
JumpRejected(e, f) ==
    /\ e.hasFirstPose /\ Len(f.pool) < 2 /\ ~singleMarkerMode
    /\ Abs(e.modelPos - f.fusedPos) > singleMarkerMaxJump

\* Step 5, World Anchor logic: the final pose and the anchor state of a frame
\* that passed the jump guard
WorldAnchorStep(e, f, measDt, ema, softLimitDeg) ==
    LET a0 == AnchorState(e.worldAnchorActive, e.worldAnchorBuildup,
                          e.worldAnchorPos, e.worldAnchorQuat)
    IN  IF ~e.hasFirstPose
        THEN [ finalPos |-> f.fusedPos, finalQuat |-> f.fusedQuat,
               anchor |-> AnchorState(FALSE, 0, a0.pos, a0.quat) ]
        ELSE Smoothing(IF a0.active
                       THEN AnchorDrift(a0, e.modelPos, e.modelQuat,
                                        f.fusedPos, f.fusedQuat, Len(f.pool))
                       ELSE a0,
                       e.modelPos, e.modelQuat, f.fusedPos, f.fusedQuat,
                       f.pool, measDt, ema, softLimitDeg)

\* Step 6 on the engine e2 with the outcome s of Step 5
StepSix(e2, s) ==
    UpdateTargetPose([ WithAnchor(e2, s.anchor) EXCEPT !.hasFirstPose = TRUE ],
                     s.finalPos, s.finalQuat)

\* _applyTrackedPose from the jump guard on: e is the engine as the frame
\* found it, e2 the engine with timers, history and EMAs updated
ApplyFusion(e, e2, f, measDt, ema, softLimitDeg) ==
    IF JumpRejected(e, f)
    THEN [ e |-> e2, op |-> "jump", fusion |-> f ]
    ELSE [ e |-> StepSix(e2, WorldAnchorStep(e, f, measDt, ema, softLimitDeg)),
           op |-> "fused", fusion |-> f ]

\* _applyTrackedPose, temporal robustification on the fused pose f
ApplyFused(e, t, ap, f, ema) ==
    ApplyFusion(e, Robustified(Stamped(e, t), f, ema), f, MeasDt(e, t), ema,
                ap.adaptiveObliqueSoftLimitDeg)

\* _applyTrackedPose, Step 3 on the surviving pool
ApplyPool(e, t, ap, f) == ApplyFused(e, t, ap, f, QualityEMA(e, f))

\* _applyTrackedPose, Step 2 on the candidates; no candidate, early return
ApplyCandidates(e, t, ap, candidates, pool) ==
    IF Len(candidates) = 0
    THEN [ e |-> Stamped(e, t), op |-> "nocand", fusion |-> NoFusion ]
    ELSE ApplyPool(e, t, ap,
             Fusion(e, candidates, pool, FusePosition(pool),
                    FuseQuaternion(pool)))

\* Step 1: the candidates of the frame
CandidatesOf(e, poseful, ap) ==
    BuildCandidates(poseful, ReferencePosForGate(e), ap)

ApplyWith(e, t, ap, candidates) ==
    ApplyCandidates(e, t, ap, candidates,
                    RobustPool(candidates, ap.adaptiveOutlierDistance))

\* _applyTrackedPose(poseful, statusEl, now): the engine after the call and
\* what the call computed on the way
ApplyTrackedPose(e, poseful, t) ==
    ApplyWith(e, t, AdaptiveParameters(e),
              CandidatesOf(e, poseful, AdaptiveParameters(e)))

\* variant: the hysteresis counts frames instead of time
InHysteresisFrames(e, t) ==
    e.lastTrackingTime > 0 /\ e.framesWithoutDetection <= 3

\* _handleTrackingLost: the hysteresis test
InHysteresis(e, t) ==
    e.lastTrackingTime > 0 /\ (t - e.lastTrackingTime) < trackingTimeout

\* variant: the pause gives the lock up
LockPausedReleasing(e) ==
    [ WithAnchor(e, AnchorReleased) EXCEPT
        !.isTracking = FALSE, !.visible = FALSE,
        !.poseTargetPosition = Null, !.poseTargetQuaternion = Null ]

\* _handleTrackingLost: lock active and detections gone, the model is hidden
LockPaused(e) ==
    [ e EXCEPT !.isTracking = FALSE, !.visible = FALSE,
               !.poseTargetPosition = Null, !.poseTargetQuaternion = Null ]

\* variant: the lost transition leaves the world anchor as it is
FullyLostKeepAnchor(e) ==
    [ e EXCEPT
        !.positionHistory = << >>,
        !.poseTargetPosition = Null,
        !.poseTargetQuaternion = Null,
        !.lastRenderTime = 0,
        !.lastPoseMeasurementTime = 0,
        !.viewAngleEMA = 0,
        !.isTracking = FALSE,
        !.visible = FALSE,
        !.hasFirstPose = FALSE ]

\* _handleTrackingLost: "Fully lost"
FullyLost(e) ==
    [ WithAnchor(e, AnchorReleased) EXCEPT
        !.positionHistory = << >>,
        !.poseTargetPosition = Null,
        !.poseTargetQuaternion = Null,
        !.lastRenderTime = 0,
        !.lastPoseMeasurementTime = 0,
        !.viewAngleEMA = 0,
        !.isTracking = FALSE,
        !.visible = FALSE,
        !.hasFirstPose = FALSE ]

\* _handleTrackingLost(statusEl, now)
HandleTrackingLost(e, t) ==
    LET e1 == [ e EXCEPT !.framesWithoutDetection = @ + 1 ]
    IN  IF InHysteresis(e1, t)
        THEN IF e1.worldAnchorActive /\ e1.framesWithoutDetection > 1
             THEN [ e |-> LockPaused(e1), op |-> "paused",
                    fusion |-> NoFusion ]
             ELSE [ e |-> e1, op |-> "held", fusion |-> NoFusion ]
        ELSE [ e |-> FullyLost(e1), op |-> "lost", fusion |-> NoFusion ]

\* _handleTrackingResult(data)
HandleTrackingResult(e, rawMarkers, t) ==
    LET validMarkers == SelectSeq(rawMarkers,
                                  LAMBDA m : m.id \in validMarkerIds)
        poseful == SelectSeq(validMarkers, LAMBDA m : m.hasPose)
    IN  IF Len(poseful) > 0
        THEN ApplyTrackedPose(e, poseful, t)
        ELSE HandleTrackingLost(e, t)

\* _updateRenderPose(now)
UpdateRenderPose(e, t) ==
    LET dt10 == IF e.lastRenderTime > 0
                THEN Max(1, (t - e.lastRenderTime) * 10)
                ELSE 10000 \div 60
        tau == IF e.worldAnchorActive THEN renderPoseTauLocked
               ELSE renderPoseTau
        alpha == Min(1000, 1000 - ExpNeg(dt10, Max(1, tau * 10)))
    IN  IF ~e.isTracking \/ ~e.visible THEN e
        ELSE IF e.poseTargetPosition = Null \/ e.poseTargetQuaternion = Null
             THEN e
             ELSE [ e EXCEPT
                      !.lastRenderTime = t,
                      !.modelPos = Lerp(e.modelPos, Val(e.poseTargetPosition),
                                        alpha, 1000),
                      !.modelQuat = Slerp(e.modelQuat,
                                          Val(e.poseTargetQuaternion),
                                          alpha, 1000) ]

\* variant: the lock is forced whatever the tracking state
ForceWorldAnchorLockUnchecked(e, t) ==
    WithAnchor(e, AnchorState(TRUE, worldAnchorBuildupTarget,
                              Some(e.modelPos), Some(e.modelQuat)))

\* forceWorldAnchorLock()
ForceWorldAnchorLockOn(e, t) ==
    LET trackingFresh == e.isTracking
                         /\ (t - e.lastTrackingTime) < trackingTimeout
    IN  IF ~trackingFresh \/ ~e.visible THEN e
        ELSE WithAnchor(e, AnchorState(TRUE, worldAnchorBuildupTarget,
                                       Some(e.modelPos), Some(e.modelQuat)))

\* variant: the release also clears the position history
ReleaseWorldAnchorResetting(e) ==
    [ WithAnchor(e, AnchorReleased) EXCEPT !.positionHistory = << >> ]

\* releaseWorldAnchor()
ReleaseWorldAnchorOn(e) == WithAnchor(e, AnchorReleased)

\* ---- the single-marker engine of src/utils/restoration-engine.js
\* _applyTrackedPose(poseful, statusEl, now): the model is put at the pose of
\* the first marker, its orientation is the identity; posFilter and
\* quatFilter are not called
SingleApplyTrackedPose(e, poseful, t) ==
    [ e EXCEPT !.lastTrackingTime = t,
               !.framesWithoutDetection = 0,
               !.modelPos = poseful[1].x,
               !.modelQuat = 0,
               !.poseTargetPosition = Some(poseful[1].x),
               !.poseTargetQuaternion = Some(0),
               !.isTracking = TRUE,
               !.visible = TRUE ]

\* _handleTrackingLost(statusEl, now): hidden after 10 frames without a marker
SingleHandleTrackingLost(e) ==
    IF e.framesWithoutDetection + 1 >= 10
    THEN [ e EXCEPT !.framesWithoutDetection = @ + 1,
                    !.positionHistory = << >>,
                    !.poseTargetPosition = Null,
                    !.poseTargetQuaternion = Null,
                    !.lastRenderTime = 0,
                    !.lastPoseMeasurementTime = 0,
                    !.isTracking = FALSE,
                    !.visible = FALSE,
                    !.hasFirstPose = FALSE ]
    ELSE [ e EXCEPT !.framesWithoutDetection = @ + 1 ]

\* the markers with a valid id and a pose
Poseful(rawMarkers) ==
    SelectSeq(rawMarkers, LAMBDA m : m.id \in validMarkerIds /\ m.hasPose)

\* _handleTrackingResult(data)
SingleHandleTrackingResult(e, rawMarkers, t) ==
    IF Len(Poseful(rawMarkers)) > 0
    THEN [ e |-> SingleApplyTrackedPose(e, Poseful(rawMarkers), t), op |-> "single.tracked" ]
    ELSE [ e |-> SingleHandleTrackingLost(e), op |-> "single.lost" ]

\* _updateRenderPose(now): the model snaps to the target
SingleUpdateRenderPose(e) ==
    IF ~e.isTracking \/ ~e.visible \/ e.poseTargetPosition = Null
       \/ e.poseTargetQuaternion = Null
    THEN e
    ELSE [ e EXCEPT !.modelPos = Val(e.poseTargetPosition),
                    !.modelQuat = Val(e.poseTargetQuaternion) ]

\* the k newest entries of a history
Newest(history, k) ==
    IF Len(history) > k
    THEN SubSeq(history, Len(history) - k + 1, Len(history)) ELSE history

\* Math.max(1, Math.min(15, Number(n) || this._positionHistorySize))
HistorySize(e, n) == Max(1, Min(15, IF n = 0 THEN e.positionHistorySize ELSE n))

\* variant: a shrinking history keeps its oldest entries
SetPositionHistorySizeKeepingOldest(e, n) ==
    [ e EXCEPT !.positionHistorySize = HistorySize(e, n),
               !.positionHistory =
                   SubSeq(e.positionHistory, 1,
                          Min(Len(e.positionHistory), HistorySize(e, n))) ]

\* setPositionHistorySize(n)
SetPositionHistorySizeOn(e, n) ==
    [ e EXCEPT !.positionHistorySize = HistorySize(e, n),
               !.positionHistory = Newest(e.positionHistory, HistorySize(e, n)) ]

\* -------------------------------------------------------------- pose filters
\* Quaternions of rotations about one axis, [z, w] = (sin, cos) of half the
\* angle in units of 1 / QuatUnit; each operation rounds to that unit, as the
\* floating-point operation rounds to its own.
QuatUnit == 10000
Quat(z, w) == [ z |-> z, w |-> w ]
QuatIdentity == Quat(0, QuatUnit)

RECURSIVE FloorSqrt(_, _, _)
FloorSqrt(n, lo, hi) ==
    IF lo >= hi THEN lo
    ELSE IF ((lo + hi + 1) \div 2) * ((lo + hi + 1) \div 2) <= n
         THEN FloorSqrt(n, (lo + hi + 1) \div 2, hi)
         ELSE FloorSqrt(n, lo, ((lo + hi + 1) \div 2) - 1)

NearestSqrt(n, r) == IF n - r * r > r THEN r + 1 ELSE r

\* Math.sqrt, rounded to the nearest unit
Sqrt(n) == NearestSqrt(n, FloorSqrt(n, 0, 46340))

\* THREE.Quaternion: dot, length, normalize, conjugate, multiply
QuatDot(a, b) == a.z * b.z + a.w * b.w
QuatLength(q) == Sqrt(QuatDot(q, q))
QuatScaled(q, l) ==
    IF l = 0 THEN QuatIdentity
    ELSE Quat(RoundDiv(q.z * QuatUnit, l), RoundDiv(q.w * QuatUnit, l))

\* variant: normalize leaves the quaternion as it is
QuatNormalizeSkipped(q) == q

QuatNormalize(q) == QuatScaled(q, QuatLength(q))
QuatConjugate(q) == Quat(-q.z, q.w)
QuatNegate(q) == Quat(-q.z, -q.w)
QuatMultiply(a, b) ==
    Quat(RoundDiv(a.w * b.z + a.z * b.w, QuatUnit),
         RoundDiv(a.w * b.w - a.z * b.z, QuatUnit))

\* THREE.Quaternion.slerp at t = 1/2: the target is taken on the hemisphere of
\* a; both sine ratios are 1 / |a + b|
QuatSlerpHalf(a, b) ==
    IF QuatDot(a, b) < 0
    THEN QuatNormalize(Quat(a.z - b.z, a.w - b.w))
    ELSE IF QuatDot(a, b) >= QuatUnit * QuatUnit THEN a
         ELSE QuatNormalize(Quat(a.z + b.z, a.w + b.w))

\* THREE.Quaternion.slerp at t = quarters / 4: t = 0 keeps a, t = 1 copies b
QuatSlerp(a, b, quarters) ==
    CASE quarters <= 0 -> a
      [] quarters = 1 -> QuatSlerpHalf(a, QuatSlerpHalf(a, b))
      [] quarters = 2 -> QuatSlerpHalf(a, b)
      [] quarters = 3 -> QuatSlerpHalf(QuatSlerpHalf(a, b), b)
      [] OTHER -> b

\* Quaternion.setFromAxisAngle(axis, theta): theta in mrad of the table
AxisAngle(theta) ==
    CASE theta = 200 -> Quat(998, 9950)
      [] theta = -200 -> Quat(-998, 9950)
      [] theta = 600 -> Quat(2955, 9553)
      [] OTHER -> QuatIdentity

\* QuaternionFilter.update: alpha = 1 - exp(-dt / timeConstant) in quarters,
\* dt counted in half-lives (timeConstant * ln 2) of the filter
FilterAlpha(dt) ==
    CASE dt <= 0 -> 0
      [] dt = 1 -> 2
      [] dt = 2 -> 3
      [] OTHER -> 4

\* the measurement on the hemisphere of current ("shortest-path slerp")
ShortestPath(current, measured) ==
    IF QuatDot(current, measured) < 0 THEN QuatNegate(measured) ELSE measured

\* variant: the filter takes the measurement as it comes
QuaternionFilterCopy(current, measured, dt, confidence) ==
    IF measured = Null THEN current ELSE measured

\* QuaternionFilter.update(measured, dt, confidence): the new this.current,
\* which is also the value returned
QuaternionFilterUpdate(current, measured, dt, confidence) ==
    IF measured = Null THEN current
    ELSE IF current = Null THEN measured
    ELSE Some(QuatSlerp(Val(current),
                        ShortestPath(Val(current), Val(measured)),
                        Min(4, (FilterAlpha(dt) * confidence) \div 1000)))

\* QuaternionEKF: P.ori and R in units of 1e-6, Q.gyro in 1e-6 per second
ekfR == 10000
ekfQgyro == 100

\* QuaternionEKF.predict(omega, dt): theta = |omega - b| * dt in mrad (the
\* bias b stays 0), dt in ms; the state after the call
EKFPredict(q, Pori, theta, dt) ==
    [ q |-> QuatNormalize(QuatMultiply(q,
                IF Abs(theta) > 0 THEN AxisAngle(theta) ELSE QuatIdentity)),
      Pori |-> Pori + RoundDiv(ekfQgyro * dt, 1000) ]

\* the scalar Kalman gain, in permille
EKFGain(Pori) == (Pori * 1000) \div (Pori + ekfR)

\* the error quaternion measured * predicted^{-1}
EKFError(q, measuredQuat) == QuatMultiply(measuredQuat, QuatConjugate(q))

\* the correction as a small rotation
EKFCorrection(qe, K) == QuatNormalize(Quat(RoundDiv(qe.z * K, 1000), QuatUnit))

\* QuaternionEKF.update(measuredQuat): the state after the call
EKFUpdate(q, Pori, measuredQuat) ==
    [ q |-> QuatNormalize(QuatMultiply(q,
                EKFCorrection(EKFError(q, measuredQuat), EKFGain(Pori)))),
      Pori |-> ((1000 - EKFGain(Pori)) * Pori) \div 1000 ]

\* PredictivePositionFilter along one axis: positions in micrometres, dt in
\* milliseconds, velocities in mm/s, factors in permille
responsiveness == 850
velocitySmoothing == 600
predictionFactor == 400
maxVelocity == 2000
maxPredictionDt == 33
maxPredictionStep == 20000
velocityDamping == 900
positionDeadband == 1500

\* v.clampLength(0, hi)
ClampLength(v, hi) == IF v > hi THEN hi ELSE IF v < -hi THEN -hi ELSE v

\* the fields of a PredictivePositionFilter
Filter(current, velocity, lastMeasurement) ==
    [ current |-> current, velocity |-> velocity,
      lastMeasurement |-> lastMeasurement ]

\* reset(v)
PredictiveReset(v) == Filter(Some(v), Some(0), Some(v))

\* variant: the velocity of a measurement delta is taken as it is
InstantVelUnclamped(measured, lastMeasurement, dt) ==
    RoundDiv(measured - lastMeasurement, dt)

\* instantaneous velocity from the measurement delta, clamped
InstantVel(measured, lastMeasurement, dt) ==
    ClampLength(RoundDiv(measured - lastMeasurement, dt), maxVelocity)

\* velocity.multiplyScalar(velocityDamping)
Damped(velocity) ==
    IF velocity = Null THEN Null
    ELSE Some(RoundDiv(Val(velocity) * velocityDamping, 1000))

\* the velocity estimate after a measurement
VelocityEstimate(f, measured, dt) ==
    IF dt > 1 /\ f.lastMeasurement # Null
    THEN IF f.velocity = Null
         THEN Some(InstantVel(measured, Val(f.lastMeasurement), dt))
         ELSE Some(Lerp(Val(f.velocity),
                        InstantVel(measured, Val(f.lastMeasurement), dt),
                        velocitySmoothing, 1000))
    ELSE f.velocity

\* a blend that leaves current where it was
BlendStuck(current, measured, confidence) == current

\* current.lerp(measured, Math.min(1, responsiveness * confidence))
Blend(current, measured, confidence) ==
    Lerp(current, measured, Min(1000, (responsiveness * confidence) \div 1000), 1000)

\* a deadband step that leaves the velocity estimate and the last
\* measurement as they were before the call
DeadbandStepFrozen(f, velocity, measured, confidence) ==
    IF Abs(measured - Val(f.current)) < positionDeadband
    THEN Filter(f.current, Damped(f.velocity), f.lastMeasurement)
    ELSE Filter(Some(Blend(Val(f.current), measured, confidence)), velocity,
                Some(measured))

\* the deadband and the blend, once the velocity is estimated
DeadbandStep(f, velocity, measured, confidence) ==
    IF Abs(measured - Val(f.current)) < positionDeadband
    THEN Filter(f.current, Damped(velocity), Some(measured))
    ELSE Filter(Some(Blend(Val(f.current), measured, confidence)), velocity,
                Some(measured))

\* variant: the prediction step is not clamped
PredictivePredictUnclamped(f, dt) ==
    IF f.current # Null /\ f.velocity # Null /\ predictionFactor > 0 /\ dt > 0
    THEN Filter(Some(Val(f.current)
                     + RoundDiv(Val(f.velocity) * Min(maxPredictionDt, dt)
                                * predictionFactor, 1000)),
                IF velocityDamping < 1000 THEN Damped(f.velocity) ELSE f.velocity,
                f.lastMeasurement)
    ELSE f

\* predict(dt)
PredictivePredict(f, dt) ==
    IF f.current # Null /\ f.velocity # Null /\ predictionFactor > 0 /\ dt > 0
    THEN Filter(Some(Val(f.current)
                     + ClampLength(RoundDiv(Val(f.velocity) * Min(maxPredictionDt, dt)
                                            * predictionFactor, 1000),
                                   maxPredictionStep)),
                IF velocityDamping < 1000 THEN Damped(f.velocity) ELSE f.velocity,
                f.lastMeasurement)
    ELSE f

\* update(measured, dt, confidence); measured is Null or Some(position)
PredictiveUpdate(f, measured, dt, confidence) ==
    IF measured = Null THEN PredictivePredict(f, dt)
    ELSE IF f.current = Null THEN PredictiveReset(Val(measured))
    ELSE DeadbandStep(f, VelocityEstimate(f, Val(measured), dt), Val(measured),
                      confidence)

\* -------------------------------------------------------------------- inputs
NoMarkers == << >>
UnknownOnly == << Good(99, BasePos, 200) >>
TinyOnly == << Good(1, BasePos, 20) >>
Steady == << Good(1, BasePos, 200) >>
SingleAt(x) == << Good(1, x, 200) >>
Moved == SingleAt(BasePos + 50)
PairAt(x) == << Good(1, x, 200), Good(2, x + 10, 200) >>
PairTurned == << Obs(1, BasePos, BaseYaw + 700, 200, 0, 900, 0, "posit"),
                 Obs(2, BasePos + 10, BaseYaw + 700, 200, 0, 900, 0, "posit") >>
ZeroAxis == << Obs(1, BasePos, 0, 200, 0, 900, 0, "posit") >>
Disagree == << Good(1, BasePos, 200), Good(2, BasePos + 400, 200) >>
Cluster(pc, po) ==
    << Good(1, BasePos, pc), Good(2, BasePos + 5, pc),
       Good(3, BasePos + 10, pc), Good(4, BasePos + 15, pc),
       Good(5, BasePos + 20, pc), Good(6, BasePos + 510, po) >>

PairApart == << Good(1, BasePos, 200), Good(2, BasePos + 100, 200) >>
WidePair == << Good(1, BasePos, 200), Good(2, BasePos + 1200, 200) >>

LockFrames == { Steady, PairAt(BasePos), PairAt(BasePos + 250) }

RedetectFrames == { NoMarkers, Steady, Moved }

FusionFrames ==
    { NoMarkers, TinyOnly, UnknownOnly, Steady, ZeroAxis, Disagree,
      Cluster(100, 100), Cluster(200, 100), Cluster(100, 400) }

AnchorFrames ==
    { NoMarkers, PairAt(BasePos), PairAt(BasePos + 250), PairTurned,
      SingleAt(BasePos + 300) }

HistoryFrames == { Steady, Moved, SingleAt(BasePos + 20) }

\* arguments of setPositionHistorySize: not a number, below, inside, above
HistorySizes == { 0, -3, 2, 4, 100 }

\* ---------------------------------------------------------------- behaviour
Snapshot(e) ==
    [ isTracking |-> e.isTracking, visible |-> e.visible,
      active |-> e.worldAnchorActive, buildup |-> e.worldAnchorBuildup,
      hasFirstPose |-> e.hasFirstPose,
      framesWithoutDetection |-> e.framesWithoutDetection ]

PoseOf(e) ==
    [ modelPos |-> e.modelPos, modelQuat |-> e.modelQuat,
      targetPos |-> e.poseTargetPosition,
      targetQuat |-> e.poseTargetQuaternion ]

NoRun == [ len |-> 0 ]

Done(op, frame, fusion) ==
    [ op |-> op, frame |-> frame, fusion |-> fusion, pre |-> Snapshot(Engine) ]

\* a message between the main thread and the worker; markers is the content
\* of the frame, for the types 'frame' and 'result'
Message(type, markers) == [ type |-> type, markers |-> markers ]

InitFilters ==
    /\ qfCurrent = Null
    /\ ekfQ = QuatIdentity
    /\ ekfPori = 10000
    /\ pfCurrent = Null
    /\ pfVelocity = Null
    /\ pfLastMeasurement = Null
    /\ flast = [ op |-> "init" ]
    /\ fcalls = 0
    /\ pfRun = 0

\* init() has run to its end: 'init' and 'config' are posted to the worker and
\* _loop has requested its first animation frame
Init ==
    /\ InitFilters
    /\ tuning = ConstructedTuning
    /\ tlast = [ op |-> "init" ]
    /\ workerReady = FALSE
    /\ bitmaps = 0
    /\ inbox = << Message("init", << >>), Message("config", << >>) >>
    /\ outbox = << >>
    /\ detector = FALSE
    /\ worker = TRUE
    /\ stopped = FALSE
    /\ xrActive = FALSE
    /\ initializing = FALSE
    /\ rafId = Some(1)
    /\ pending = {1}
    /\ rafCount = 1
    /\ now = 100
    /\ isTracking = FALSE
    /\ visible = FALSE
    /\ modelPos = 0
    /\ modelQuat = 0
    /\ poseTargetPosition = Null
    /\ poseTargetQuaternion = Null
    /\ hasFirstPose = FALSE
    /\ framesWithoutDetection = 0
    /\ lastTrackingTime = 0
    /\ lastPoseMeasurementTime = 0
    /\ lastRenderTime = 0
    /\ positionHistory = << >>
    /\ positionHistorySize = 3
    /\ measurementConfidenceEMA = 800
    /\ poolSpreadEMA = 0
    /\ viewAngleEMA = 0
    /\ worldAnchorActive = FALSE
    /\ worldAnchorPos = Null
    /\ worldAnchorQuat = Null
    /\ worldAnchorBuildup = 0
    /\ workerBusy = FALSE
    /\ lastDetectionTime = 0
    /\ last = Done("init", << >>, NoFusion)
    /\ agreeRun = NoRun
    /\ gapRun = NoRun
    /\ steadyRun = NoRun

\* the candidates of the frame are two and lie within 1 cm of each other
AgreeingPair(candidates) ==
    /\ Len(candidates) = 2
    /\ Abs(candidates[1].position - candidates[2].position) <= 10

\* worker.onmessage, 'result': _workerBusy = false and the outcome r of
\* _handleTrackingResult(data) at time t
OnResult(frame, t, r) ==
    /\ Install(r.e, t)
    /\ workerBusy' = FALSE
    /\ UNCHANGED << lastDetectionTime, filterVars, tuningVars >>
    /\ last' = Done(r.op, frame, r.fusion)
    /\ agreeRun' =
          IF AgreeingPair(r.fusion.candidates)
          THEN IF agreeRun.len = 0
               THEN [ len |-> 1, start |-> Snapshot(Engine) ]
               ELSE [ agreeRun EXCEPT !.len = @ + 1 ]
          ELSE NoRun
    /\ gapRun' =
          IF r.op \in {"nocand", "jump", "fused"} THEN NoRun
          ELSE IF gapRun.len = 0
               THEN [ len |-> 1, start |-> Snapshot(Engine),
                      pose |-> PoseOf(Engine),
                      locked |-> worldAnchorActive ]
               ELSE [ gapRun EXCEPT !.len = @ + 1,
                        !.locked = @ \/ worldAnchorActive ]
    /\ steadyRun' =
          IF frame = Steady
          THEN IF steadyRun.len = 0
               THEN [ len |-> 1, start |-> Snapshot(Engine) ]
               ELSE [ steadyRun EXCEPT !.len = @ + 1 ]
          ELSE NoRun

\* the worker's 'result' message for the frame it holds, arriving when the
\* clock has advanced by dt
DetectionResult(frame, dt, maxTicks) ==
    /\ workerBusy
    /\ now + dt <= 100 + maxTicks * 100
    /\ OnResult(frame, now + dt, HandleTrackingResult(Engine, frame, now + dt))
    /\ UNCHANGED << workerVars, lifecycleVars >>

\* the body of _loop on the engine e with this.worker set or not (w):
\* _updateRenderPose(now), then the next frame goes to the worker when it is
\* idle and the detection interval has passed
RenderWith(e, w) ==
    LET post == /\ w /\ ~workerBusy
                /\ (now - lastDetectionTime) * Max(1, detectionFps) >= 1000
    IN  /\ Install(UpdateRenderPose(e, now), now)
        /\ workerBusy' = (workerBusy \/ post)
        /\ lastDetectionTime' = IF post THEN now ELSE lastDetectionTime
        /\ last' = Done("render", << >>, NoFusion)

\* a turn of _loop while the engine runs outside WebXR; the chain of
\* animation frames goes on as it was
Loop ==
    /\ RenderWith(Engine, worker)
    /\ UNCHANGED << agreeRun, gapRun, steadyRun, filterVars, tuningVars,
                    workerVars, lifecycleVars >>

ForceWorldAnchorLock ==
    /\ Install(ForceWorldAnchorLockOn(Engine, now), now)
    /\ last' = Done("force", << >>, NoFusion)
    /\ agreeRun' = NoRun
    /\ UNCHANGED << workerBusy, lastDetectionTime, gapRun, steadyRun,
                    filterVars, tuningVars, workerVars, lifecycleVars >>

ReleaseWorldAnchor ==
    /\ Install(ReleaseWorldAnchorOn(Engine), now)
    /\ last' = Done("release", << >>, NoFusion)
    /\ agreeRun' = NoRun
    /\ UNCHANGED << workerBusy, lastDetectionTime, gapRun, steadyRun,
                    filterVars, tuningVars, workerVars, lifecycleVars >>

\* setPositionHistorySize(n)
SetPositionHistorySize(n) ==
    /\ Install(SetPositionHistorySizeOn(Engine, n), now)
    /\ last' = Done("historySize", << >>, NoFusion)
    /\ UNCHANGED << workerBusy, lastDetectionTime, agreeRun, gapRun, steadyRun,
                    filterVars, tuningVars, workerVars, lifecycleVars >>

\* measured quaternions: unit, on either hemisphere
QuatInputs ==
    { Quat(6000, 8000), Quat(-6000, -8000), Quat(8000, -6000),
      Quat(0, -QuatUnit) }

\* (dt in half-lives, confidence in permille) of QuaternionFilter.update
FilterSteps == { << 1, 1000 >>, << 2, 1000 >>, << 60, 1000 >>, << 1, 500 >> }

\* QuaternionFilter.reset(q)
QfReset(q) ==
    /\ fcalls < QuatCalls
    /\ qfCurrent' = Some(q)
    /\ flast' = [ op |-> "qf.reset" ]
    /\ fcalls' = fcalls + 1
    /\ UNCHANGED << trackingVars, tuningVars, ekfQ, ekfPori, pfCurrent, pfVelocity,
                    pfLastMeasurement, pfRun, workerVars, lifecycleVars >>

\* QuaternionFilter.update(measured, dt, confidence)
QfUpdate(measured, dt, confidence) ==
    /\ fcalls < QuatCalls
    /\ qfCurrent' = QuaternionFilterUpdate(qfCurrent, Some(measured), dt,
                                           confidence)
    /\ flast' = [ op |-> "qf.update", pre |-> qfCurrent,
                  measured |-> measured ]
    /\ fcalls' = fcalls + 1
    /\ UNCHANGED << trackingVars, tuningVars, ekfQ, ekfPori, pfCurrent, pfVelocity,
                    pfLastMeasurement, pfRun, workerVars, lifecycleVars >>

\* the state of the QuaternionEKF after a call
EkfInstall(op, r, input) ==
    /\ fcalls < QuatCalls
    /\ ekfQ' = r.q
    /\ ekfPori' = r.Pori
    /\ flast' = [ op |-> op, pre |-> ekfQ, input |-> input ]
    /\ fcalls' = fcalls + 1
    /\ UNCHANGED << trackingVars, tuningVars, qfCurrent, pfCurrent, pfVelocity,
                    pfLastMeasurement, pfRun, workerVars, lifecycleVars >>

\* QuaternionEKF.predict(omega, dt) with dt = 16 ms
EkfPredict(theta) ==
    EkfInstall("ekf.predict", EKFPredict(ekfQ, ekfPori, theta, 16), theta)

\* QuaternionEKF.update(measuredQuat)
EkfUpdate(measured) ==
    EkfInstall("ekf.update", EKFUpdate(ekfQ, ekfPori, measured), measured)

\* the quaternion filters under any sequence of calls
NextQuat ==
    \/ QfReset(QuatIdentity)
    \/ \E m \in QuatInputs, st \in FilterSteps : QfUpdate(m, st[1], st[2])
    \/ \E theta \in {0, 200, 600} : EkfPredict(theta)
    \/ \E m \in QuatInputs : EkfUpdate(m)

SpecQuat == Init /\ [][NextQuat]_vars

\* the fields of the position filter
PfState == Filter(pfCurrent, pfVelocity, pfLastMeasurement)

\* the position filter after a call
PfInstall(f, record, run) ==
    /\ pfCurrent' = f.current
    /\ pfVelocity' = f.velocity
    /\ pfLastMeasurement' = f.lastMeasurement
    /\ flast' = record
    /\ pfRun' = run
    /\ UNCHANGED << trackingVars, tuningVars, qfCurrent, ekfQ, ekfPori,
                    workerVars, lifecycleVars >>

\* distances from the target at which the filter starts, micrometres
StartOffsets == { 0, 1000, 1400, -1400, 9333, 62220, 500000, -750000 }

\* reset(v) at any starting position
PfStart(v) ==
    /\ pfCurrent = Null
    /\ fcalls' = fcalls
    /\ PfInstall(PredictiveReset(v), [ op |-> "pf.reset", start |-> v ], 0)

\* update(target, 1/30, 1)
PfFeed ==
    /\ pfCurrent # Null
    /\ pfRun < ConvergenceUpdates
    /\ fcalls' = fcalls
    /\ PfInstall(PredictiveUpdate(PfState, Some(ConvergeTarget), 33, 1000),
                 [ op |-> "pf.feed", start |-> flast.start ], pfRun + 1)

\* a start and then the same constant target, update after update
NextConverge ==
    \/ \E d \in StartOffsets : PfStart(ConvergeTarget + d)
    \/ PfFeed

SpecConverge == Init /\ [][NextConverge]_vars

\* measured positions, micrometres
PosInputs == { 0, 1000, 1400, 10000, -50000 }

\* PredictivePositionFilter.reset(v)
PfReset(v) ==
    /\ fcalls < PosCalls
    /\ fcalls' = fcalls + 1
    /\ PfInstall(PredictiveReset(v), [ op |-> "pf.reset", start |-> v ], 0)

\* PredictivePositionFilter.update(measured, dt, confidence)
PfUpdate(measured, dt, confidence) ==
    /\ fcalls < PosCalls
    /\ fcalls' = fcalls + 1
    /\ PfInstall(PredictiveUpdate(PfState, Some(measured), dt, confidence),
                 [ op |-> "pf.update", pre |-> PfState, measured |-> measured,
                   dt |-> dt ], 0)

\* PredictivePositionFilter.predict(dt)
PfPredict(dt) ==
    /\ fcalls < PosCalls
    /\ fcalls' = fcalls + 1
    /\ PfInstall(PredictiveUpdate(PfState, Null, dt, 1000),
                 [ op |-> "pf.predict", pre |-> PfState ], 0)

\* the position filter under any sequence of calls
NextPosition ==
    \/ PfReset(0)
    \/ \E m \in PosInputs, dt \in {1, 33}, c \in {500, 1000} : PfUpdate(m, dt, c)
    \/ \E dt \in {0, 16} : PfPredict(dt)

SpecPosition == Init /\ [][NextPosition]_vars

\* the position filter under fast motion: measurements 70 mm apart at the
\* detection rate, and predictions over short and long render intervals
MotionCalls == 5
MotionInputs == { 0, 70000, 140000 }

MotionReset ==
    /\ fcalls < MotionCalls
    /\ fcalls' = fcalls + 1
    /\ PfInstall(PredictiveReset(0), [ op |-> "pf.reset", start |-> 0 ], 0)

MotionUpdate(measured, dt) ==
    /\ fcalls < MotionCalls
    /\ fcalls' = fcalls + 1
    /\ PfInstall(PredictiveUpdate(PfState, Some(measured), dt, 1000),
                 [ op |-> "pf.update", pre |-> PfState, measured |-> measured,
                   dt |-> dt ], 0)

MotionPredict(dt) ==
    /\ fcalls < MotionCalls
    /\ fcalls' = fcalls + 1
    /\ PfInstall(PredictiveUpdate(PfState, Null, dt, 1000),
                 [ op |-> "pf.predict", pre |-> PfState, dt |-> dt ], 0)

NextMotion ==
    \/ MotionReset
    \/ \E m \in MotionInputs : MotionUpdate(m, 33)
    \/ \E dt \in {0, 33, 200} : MotionPredict(dt)

SpecMotion == Init /\ [][NextMotion]_vars

\* the life cycle of tracking: detections, gaps of either length, a forced
\* lock and the render loop
Next ==
    \/ DetectionResult(Steady, 100, MaxTicks)
    \/ \E dt \in {100, 400} : DetectionResult(NoMarkers, dt, MaxTicks)
    \/ Loop
    \/ ForceWorldAnchorLock

Spec == Init /\ [][Next]_vars

\* building the lock up frame by frame at a steady detection rate
NextLock ==
    \/ \E frame \in LockFrames : DetectionResult(frame, 100, LockTicks)
    \/ Loop

SpecLock == Init /\ [][NextLock]_vars

\* the first frame the engine ever sees, at the pose next to the steady one
FirstSighting ==
    /\ ~hasFirstPose
    /\ DetectionResult(Moved, 100, SteadyTicks)

\* one marker at one pose in every frame
NextSteady ==
    \/ DetectionResult(Steady, 100, SteadyTicks)
    \/ FirstSighting
    \/ Loop

SpecSteady == Init /\ [][NextSteady]_vars

\* the candidate pools of the fusion scenarios, on a fresh engine and on one
\* that already shows a pose
NextFusion ==
    \/ \E frame \in FusionFrames : DetectionResult(frame, 100, FusionTicks)
    \/ Loop

SpecFusion == Init /\ [][NextFusion]_vars

\* a locked anchor and the frames that move away from it
NextAnchor ==
    \/ \E frame \in AnchorFrames : DetectionResult(frame, 100, AnchorTicks)
    \/ Loop
    \/ ForceWorldAnchorLock
    \/ ReleaseWorldAnchor

SpecAnchor == Init /\ [][NextAnchor]_vars

\* short gaps, and the marker found again at the same or at another pose
NextRedetect ==
    \/ \E frame \in RedetectFrames :
          DetectionResult(frame, 100, RedetectTicks)
    \/ Loop
    \/ ForceWorldAnchorLock

SpecRedetect == Init /\ [][NextRedetect]_vars

\* the single-marker engine after a call
SingleInstall(r, t, frame) ==
    /\ Install(r.e, t)
    /\ last' = Done(r.op, frame, NoFusion)
    /\ UNCHANGED << workerBusy, lastDetectionTime, agreeRun, gapRun, steadyRun,
                    filterVars, tuningVars, workerVars, lifecycleVars >>

\* a detection result reaches the single-marker engine
SingleResult(frame) ==
    /\ now + 100 <= 100 + SingleTicks * 100
    /\ SingleInstall(SingleHandleTrackingResult(Engine, frame, now + 100), now + 100, frame)

\* a render tick of the single-marker engine
SingleRender ==
    SingleInstall([ e |-> SingleUpdateRenderPose(Engine), op |-> "single.render" ], now, << >>)

SingleFrames ==
    { NoMarkers, UnknownOnly, Steady, Moved, SingleAt(BasePos + 300) }

\* the single-marker engine with its filters constructed and present
NextSingle ==
    \/ \E frame \in SingleFrames : SingleResult(frame)
    \/ SingleRender

SpecSingle == Init /\ [][NextSingle]_vars

\* noise scores (permille) and view-angle EMAs (millidegrees)
NoiseScores == { 0, 250, 500, 1000, 1350 }
ViewAngles == { 30000, 70000 }

\* the tuning after a setter
Tuned(c, op) ==
    /\ tuning' = c
    /\ tlast' = [ op |-> op ]
    /\ UNCHANGED << trackingVars, filterVars, workerVars, lifecycleVars >>

\* setMarkerOutlierDistanceMeters(m), m in millimetres
SetMarkerOutlierDistanceMeters(m) ==
    Tuned([ tuning EXCEPT !.outlierDistance = Max(10, OrDefault(m, @)) ], "setOutlier")

\* setMarkerConfidenceThreshold(t), t in permille
SetMarkerConfidenceThreshold(t) ==
    Tuned([ tuning EXCEPT !.confidenceThreshold = Max(0, Min(1000, OrDefault(t, @))) ], "setConfidence")

\* setAdaptiveTuningEnabled(enable)
SetAdaptiveTuningEnabled(enable) ==
    Tuned([ tuning EXCEPT !.enabled = enable ], "setAdaptive")

\* _calculateAdaptiveParameters(aggregateNoise) with this._viewAngleEMA = viewEMA
Calculate(aggregateNoise, viewEMA) ==
    /\ tlast' = [ op |-> "calc", noise |-> aggregateNoise, viewEMA |-> viewEMA,
                  params |-> CalculateAdaptiveParametersFor(tuning, aggregateNoise, viewEMA) ]
    /\ UNCHANGED << tuning, trackingVars, filterVars, workerVars, lifecycleVars >>

\* the setters of the tuning and the function, in any order
NextTuning ==
    \/ \E m \in { 0, 5, 50, 350, 600, 3000 } : SetMarkerOutlierDistanceMeters(m)
    \/ \E t \in { -1, 0, 5, 150, 400, 2000 } : SetMarkerConfidenceThreshold(t)
    \/ \E enable \in BOOLEAN : SetAdaptiveTuningEnabled(enable)
    \/ \E n \in NoiseScores, v \in ViewAngles : Calculate(n, v)

SpecTuning == Init /\ [][NextTuning]_vars

\* applyStabilityPreset: the table of presets of src/utils/restoration-engine.js;
\* factors and distances in permille, Null where the preset has no entry
Preset(smoothing, boost, outlier, conf) ==
    [ positionSmoothing |-> smoothing, anchorBoost |-> boost,
      outlier |-> outlier, conf |-> conf ]

Presets(name) ==
    CASE name = "minimal" -> Some(Preset(100, Some(1000), Some(250), Some(150)))
      [] name \in {"mobile", "iphone13pro"} ->
                           Some(Preset(120, Some(2500), Some(400), Some(150)))
      [] name = "desktop" -> Some(Preset(50, Null, Null, Null))
      [] OTHER -> Null

\* the tuning after the preset's calls of setMarkerOutlierDistanceMeters and
\* setMarkerConfidenceThreshold
PresetTuning(c, p) ==
    [ c EXCEPT !.outlierDistance =
                   IF p.outlier = Null THEN @ ELSE Max(10, OrDefault(Val(p.outlier), @)),
               !.confidenceThreshold =
                   IF p.conf = Null THEN @
                   ELSE Max(0, Min(1000, OrDefault(Val(p.conf), @))) ]

\* applyStabilityPreset(name): the setters it calls and their arguments
SetPreset(name) ==
    /\ tuning' = IF Presets(name) = Null THEN tuning
                 ELSE PresetTuning(tuning, Val(Presets(name)))
    /\ tlast' = IF Presets(name) = Null THEN [ op |-> "preset.unknown" ]
                ELSE [ op |-> "preset", name |-> name,
                       setFilterParams |-> Val(Presets(name)).positionSmoothing,
                       setAnchorBoost |-> Val(Presets(name)).anchorBoost ]

ApplyStabilityPreset(name) ==
    /\ SetPreset(name)
    /\ UNCHANGED << trackingVars, filterVars, workerVars, lifecycleVars >>

\* the presets among the other calls on the tuning
NextPreset ==
    \/ \E name \in { "minimal", "mobile", "iphone13pro", "desktop", "none" } :
          ApplyStabilityPreset(name)
    \/ \E m \in { 0, 50, 600 } : SetMarkerOutlierDistanceMeters(m)
    \/ \E t \in { -1, 400 } : SetMarkerConfidenceThreshold(t)
    \/ \E enable \in BOOLEAN : SetAdaptiveTuningEnabled(enable)
    \/ \E n \in NoiseScores, v \in ViewAngles : Calculate(n, v)

SpecPreset == Init /\ [][NextPreset]_vars

\* the board seen at the steady pose, next to it, a single marker beyond the
\* jump guard and a pair beyond the outlier gate
RecoverFrames ==
    { Steady, Moved, SingleAt(BasePos + 300), PairAt(BasePos + 1000) }

\* the first detection result shows the board at the steady pose
RecoverFirst == ~hasFirstPose /\ now = 100 /\ DetectionResult(Steady, 100, RecoverTicks)

\* the later detection results of the recovery scenarios
RecoverResult ==
    /\ now > 100
    /\ \E frame \in RecoverFrames : DetectionResult(frame, 100, RecoverTicks)

NextRecover == RecoverFirst \/ RecoverResult \/ Loop

\* the render loop keeps running
SpecRecover == Init /\ [][NextRecover]_vars /\ WF_vars(Loop)

\* --------------------------------------------------------- worker protocol
WorkerTicks == 4

\* the frames the camera shows while the protocol runs
WorkerFrames == { NoMarkers, Steady }

\* the condition of _loop to send the next frame, at time t
Dispatch(t) ==
    /\ worker /\ ~workerBusy
    /\ (t - lastDetectionTime) * Max(1, detectionFps) >= 1000

\* one turn of _loop at now + dt: the frame to send goes to createImageBitmap
LoopFrame(dt) ==
    LET t == now + dt
    IN  /\ t <= 100 + WorkerTicks * 100
        /\ Install(UpdateRenderPose(Engine, t), t)
        /\ workerBusy' = (workerBusy \/ Dispatch(t))
        /\ lastDetectionTime' = IF Dispatch(t) THEN t ELSE lastDetectionTime
        /\ bitmaps' = IF Dispatch(t) THEN bitmaps + 1 ELSE bitmaps
        /\ last' = Done("render", << >>, NoFusion)
        /\ UNCHANGED << agreeRun, gapRun, steadyRun, filterVars, tuningVars,
                        workerReady, inbox, outbox, detector, lifecycleVars >>

\* a promise of createImageBitmap settles: the bitmap is posted as a 'frame'
\* message, or postMessage throws, or the promise is rejected
CreateImageBitmap(outcome, frame) ==
    /\ bitmaps > 0
    /\ bitmaps' = bitmaps - 1
    /\ inbox' = IF outcome = "posted"
                THEN Append(inbox, Message("frame", frame))
                ELSE inbox
    /\ workerBusy' = IF outcome = "posted" THEN workerBusy ELSE FALSE
    /\ UNCHANGED << engineVars, lastDetectionTime, last, agreeRun, gapRun,
                    steadyRun, filterVars, tuningVars, workerReady, outbox,
                    detector, lifecycleVars >>

\* self.onmessage of the worker on the next message: 'init' builds the
\* detector (supported) or throws, processFrame answers with 'result' or
\* throws, and returns without an answer when there is no detector
SelfOnmessage(supported, throws) ==
    /\ inbox # << >>
    /\ inbox' = Tail(inbox)
    /\ detector' = IF Head(inbox).type = "init" THEN supported ELSE detector
    /\ outbox' =
          CASE Head(inbox).type = "init" ->
                  IF supported
                  THEN outbox \o << Message("log", << >>),
                                    Message("ready", << >>) >>
                  ELSE Append(outbox, Message("error", << >>))
            [] Head(inbox).type = "config" ->
                  Append(outbox, Message("log", << >>))
            [] Head(inbox).type = "frame" ->
                  IF ~detector THEN outbox
                  ELSE IF throws
                       THEN Append(outbox, Message("error", << >>))
                       ELSE Append(outbox,
                                   Message("result", Head(inbox).markers))
    /\ UNCHANGED << trackingVars, filterVars, tuningVars, workerReady,
                    bitmaps, lifecycleVars >>

\* worker.onmessage of the main thread on the next message
WorkerOnmessage ==
    /\ outbox # << >>
    /\ outbox' = Tail(outbox)
    /\ UNCHANGED << bitmaps, inbox, detector, lifecycleVars >>
    /\ CASE Head(outbox).type = "result" ->
              /\ OnResult(Head(outbox).markers, now,
                          HandleTrackingResult(Engine, Head(outbox).markers,
                                               now))
              /\ UNCHANGED workerReady
         [] Head(outbox).type = "log" ->
              UNCHANGED << trackingVars, filterVars, tuningVars, workerReady,
             lifecycleVars >>
         [] OTHER ->
              /\ workerBusy' = FALSE
              /\ workerReady' = (Head(outbox).type = "ready")
              /\ UNCHANGED << engineVars, lastDetectionTime, last, agreeRun,
                              gapRun, steadyRun, filterVars, tuningVars,
                              lifecycleVars >>

NextWorker ==
    \/ LoopFrame(100)
    \/ \E outcome \in {"posted", "throws", "rejected"}, frame \in WorkerFrames :
          CreateImageBitmap(outcome, frame)
    \/ \E supported, throws \in BOOLEAN : SelfOnmessage(supported, throws)
    \/ WorkerOnmessage

SpecWorker == Init /\ [][NextWorker]_vars

\* the render loop keeps running, promises settle, the worker handles the
\* messages it was sent, and the main thread handles every message it was
\* sent: its queue is empty again and again
SpecWorkerFair ==
    /\ SpecWorker
    /\ WF_vars(LoopFrame(100))
    /\ WF_vars(\E outcome \in {"posted", "throws", "rejected"},
                  frame \in WorkerFrames : CreateImageBitmap(outcome, frame))
    /\ WF_vars(\E supported, throws \in BOOLEAN :
                  SelfOnmessage(supported, throws))
    /\ []<>(outbox = << >>)

\* ------------------------------------------------------------ sigma clipping
ClipTicks == 5

\* frames of one marker, of markers that agree, of markers with one outlier,
\* and of two markers so far apart that a pass finds both beyond the cutoff
ClipFrames ==
    { NoMarkers, Steady, Disagree, WidePair, PairAt(BasePos),
      Cluster(100, 100), Cluster(100, 400) }

NextClip ==
    \/ \E frame \in ClipFrames, dt \in {100, 600} :
          DetectionResult(frame, dt, ClipTicks)
    \/ Loop

SpecClip == Init /\ [][NextClip]_vars

\* ------------------------------------------------------------------- gates
GateTicks == 3

\* a second marker on either side of each gate: perimeter, pose error,
\* camera angle, confidence, distance from the reference
GateMarkers ==
    { Good(2, BasePos + 10, 29), Good(2, BasePos + 10, 30),
      Obs(2, BasePos + 10, BaseYaw, 200, 351, 900, 0, "posit"),
      Obs(2, BasePos + 10, BaseYaw, 200, 350, 900, 0, "posit"),
      Obs(2, BasePos + 10, BaseYaw, 200, 0, 900, 85, "posit"),
      Obs(2, BasePos + 10, BaseYaw, 200, 0, 900, 84, "posit"),
      Obs(2, BasePos + 10, BaseYaw, 200, 0, 140, 0, "posit"),
      Obs(2, BasePos + 10, BaseYaw, 200, 0, 160, 0, "posit"),
      Good(2, BasePos + 750, 200), Good(2, BasePos + 650, 200) }

\* marker 1 at the steady pose together with one of the second markers
GateFrames == { << Good(1, BasePos, 200), m >> : m \in GateMarkers }

NextGates ==
    \/ \E frame \in GateFrames \cup {NoMarkers} :
          DetectionResult(frame, 100, GateTicks)
    \/ Loop

SpecGates == Init /\ [][NextGates]_vars

\* ------------------------------------------------------- anchor reference
DriftTicks == 10

\* pairs at the steady pose, 10 cm aside and turned by 0.2 rad, and single
\* markers at the steady pose and 10 cm aside
DriftFrames ==
    { PairAt(BasePos), PairAt(BasePos + 100), Steady, SingleAt(BasePos + 100),
      << Obs(1, BasePos, BaseYaw + 200, 200, 0, 900, 0, "posit"),
         Obs(2, BasePos + 10, BaseYaw + 200, 200, 0, 900, 0, "posit") >> }

\* the camera sees the agreeing pair until the lock engages, then any frame
DriftResult ==
    \E frame \in DriftFrames :
        /\ worldAnchorActive \/ frame = PairAt(BasePos)
        /\ DetectionResult(frame, 100, DriftTicks)

NextDrift == DriftResult \/ Loop

SpecDrift == Init /\ [][NextDrift]_vars

\* ------------------------------------------------------------- build-up
BuildupTicks == 9

\* two markers that agree and two markers 10 cm apart
BuildupFrames == { PairAt(BasePos), PairApart }

NextBuildup ==
    \/ \E frame \in BuildupFrames : DetectionResult(frame, 100, BuildupTicks)
    \/ Loop

SpecBuildup == Init /\ [][NextBuildup]_vars

\* frames of an agreeing pair, of a disagreeing pair and of a single marker,
\* long enough for the build-up to reach the target
EngageTicks == 8

EngageFrames == { PairAt(BasePos), PairApart, Steady }

NextEngage ==
    \/ \E frame \in EngageFrames : DetectionResult(frame, 100, EngageTicks)
    \/ Loop

SpecEngage == Init /\ [][NextEngage]_vars

CounterTicks == 4

\* two markers that agree, two markers 10 cm apart, one marker, an agreeing
\* pair beyond the break distance, one marker beyond the jump guard
CounterFrames ==
    { PairAt(BasePos), PairApart, Steady, PairAt(BasePos + 250),
      SingleAt(BasePos + 300) }

\* frames while the counter builds up, and the lock forced by the public call
NextCounter ==
    \/ \E frame \in CounterFrames : DetectionResult(frame, 100, CounterTicks)
    \/ Loop
    \/ ForceWorldAnchorLock

SpecCounter == Init /\ [][NextCounter]_vars

\* ---------------------------------------------------------------- lifecycle
MaxRaf == 5

\* requestAnimationFrame(() => this._loop()): the handle it returns
Requested == rafCount + 1

\* stop(): the pending frame of _rafId is cancelled, the worker terminated
\* and the messages to and from it are gone
StopOn(stoppedAfter) ==
    /\ stopped' = stoppedAfter
    /\ pending' = IF rafId # Null THEN pending \ {Val(rafId)} ELSE pending
    /\ rafId' = Null
    /\ worker' = FALSE
    /\ inbox' = << >>
    /\ outbox' = << >>

Stop ==
    /\ StopOn(TRUE)
    /\ UNCHANGED << trackingVars, filterVars, tuningVars, workerReady,
                    bitmaps, detector, xrActive, initializing, rafCount >>

\* init() up to its first await: stop(), then _stopped = false
InitBegin ==
    /\ ~initializing
    /\ StopOn(FALSE)
    /\ initializing' = TRUE
    /\ UNCHANGED << trackingVars, filterVars, tuningVars, workerReady,
                    bitmaps, detector, xrActive, rafCount >>

\* init() gives up: no camera
InitFails ==
    /\ initializing
    /\ initializing' = FALSE
    /\ UNCHANGED << trackingVars, filterVars, tuningVars, workerVars, worker,
                    stopped, xrActive, rafId, pending, rafCount >>

\* the engine with the model group _initThree creates
InitThree(e) == [ e EXCEPT !.modelPos = 0, !.modelQuat = 0, !.visible = FALSE ]

\* init() after its awaits: _initThree, _initWorker, the first call of
\* _loop and the preset of the device
InitResume(name) ==
    /\ initializing
    /\ rafCount < MaxRaf
    /\ initializing' = FALSE
    /\ worker' = TRUE
    /\ workerReady' = FALSE
    /\ detector' = FALSE
    /\ inbox' = << Message("init", << >>), Message("config", << >>) >>
    /\ SetPreset(name)
    /\ UNCHANGED << stopped, xrActive, outbox, bitmaps, filterVars, agreeRun,
                    gapRun, steadyRun >>
    /\ IF stopped
       THEN /\ Install(InitThree(Engine), now)
            /\ UNCHANGED << workerBusy, lastDetectionTime, last, rafId,
                            pending, rafCount >>
       ELSE /\ rafId' = Some(Requested)
            /\ pending' = pending \cup {Requested}
            /\ rafCount' = Requested
            /\ IF xrActive
               THEN /\ Install(InitThree(Engine), now)
                    /\ UNCHANGED << workerBusy, lastDetectionTime, last >>
               ELSE RenderWith(InitThree(Engine), TRUE)

\* the browser runs a requested animation frame: _loop
AnimationFrame(id) ==
    /\ id \in pending
    /\ UNCHANGED << agreeRun, gapRun, steadyRun, filterVars, tuningVars,
                    workerVars, worker, stopped, xrActive, initializing >>
    /\ IF stopped
       THEN /\ pending' = pending \ {id}
            /\ UNCHANGED << engineVars, workerBusy, lastDetectionTime, last,
                            rafId, rafCount >>
       ELSE /\ rafCount < MaxRaf
            /\ rafId' = Some(Requested)
            /\ pending' = (pending \ {id}) \cup {Requested}
            /\ rafCount' = Requested
            /\ IF xrActive
               THEN UNCHANGED << engineVars, workerBusy, lastDetectionTime,
                                 last >>
               ELSE RenderWith(Engine, worker)

\* startWebXR(): the session is granted, or the request fails
StartWebXR(granted) ==
    /\ ~xrActive
    /\ xrActive' = granted
    /\ UNCHANGED << trackingVars, filterVars, tuningVars, workerVars, worker,
                    stopped, initializing, rafId, pending, rafCount >>

\* _endWebXR(): the session ended and the render loop is requested again
EndWebXR ==
    /\ xrActive
    /\ rafCount < MaxRaf
    /\ xrActive' = FALSE
    /\ pending' = pending \cup {Requested}
    /\ rafCount' = Requested
    /\ UNCHANGED << trackingVars, filterVars, tuningVars, workerVars, worker,
                    stopped, initializing, rafId >>

NextLifecycle ==
    \/ Stop
    \/ InitBegin
    \/ InitFails
    \/ \E name \in {"minimal", "iphone13pro"} : InitResume(name)
    \/ \E id \in pending : AnimationFrame(id)
    \/ \E granted \in BOOLEAN : StartWebXR(granted)
    \/ EndWebXR

SpecLifecycle == Init /\ [][NextLifecycle]_vars

\* init() called again while the engine tracks: results of the new worker
RestartTicks == 5

RestartResult(frame) ==
    /\ worker
    /\ DetectionResult(frame, 100, RestartTicks)

NextRestart ==
    \/ \E frame \in {NoMarkers, Steady} : RestartResult(frame)
    \/ NextLifecycle

SpecRestart == Init /\ [][NextRestart]_vars

\* fused frames and changes of the size of the position history
NextHistory ==
    \/ \E frame \in HistoryFrames : DetectionResult(frame, 100, HistoryTicks)
    \/ Loop
    \/ \E n \in HistorySizes : SetPositionHistorySize(n)

SpecHistory == Init /\ [][NextHistory]_vars

\* ------------------------------------------------------------------- claims
\* what the last call was
TrackedFrame == last.op \in {"fused", "jump"}
GapFrame == last.op \in {"held", "paused", "lost"}
WithinTimeout == lastTrackingTime > 0 /\ now - lastTrackingTime < trackingTimeout

\* C1, as stated: from an inactive anchor, six consecutive frames of two
\* candidates agreeing within 1 cm leave the anchor active at the end of the
\* sixth frame.
C1_ActiveAfterSixFrames ==
    (agreeRun.len = 6 /\ ~agreeRun.start.active) => worldAnchorActive

\* C1, amended: the six frames lock the anchor when a first pose was already
\* applied and the build-up counter stood at 0; on an engine without a first
\* pose the first frame only snaps the pose, the anchor is still inactive
\* after six frames and active after the seventh.
C1_ActiveAfterFirstPose ==
    (agreeRun.len >= 1 /\ ~agreeRun.start.active /\ agreeRun.start.buildup = 0)
        => /\ (agreeRun.start.hasFirstPose /\ agreeRun.len = 6)
                => (worldAnchorActive /\ worldAnchorBuildup = 6)
           /\ (~agreeRun.start.hasFirstPose /\ agreeRun.len <= 6)
                => (~worldAnchorActive
                    /\ worldAnchorBuildup = agreeRun.len - 1)
           /\ (~agreeRun.start.hasFirstPose /\ agreeRun.len = 7)
                => worldAnchorActive

C1_Witness ==
    /\ agreeRun.len = 6
    /\ agreeRun.start.hasFirstPose
    /\ ~agreeRun.start.active
    /\ agreeRun.start.buildup = 0
    /\ worldAnchorActive

\* C2, as stated: while the anchor is active, a frame whose fused position
\* is 25 cm from the anchor (drift above the break distance, or drift angle
\* above the break angle) leaves the anchor inactive in that same frame.
C2_BreakOnFarFrame ==
    (/\ TrackedFrame
     /\ last.pre.active
     /\ \/ last.fusion.rawDist >= 250
        \/ last.fusion.driftDist > worldAnchorBreakDistance
        \/ last.fusion.driftAngle > worldAnchorBreakAngle)
        => ~worldAnchorActive

\* C2, amended: the lock breaks in the frame when the frame passes the
\* single-marker jump guard and the drift of the median-filtered fused pose
\* from the anchor reference is above the break distance or angle; a frame the
\* jump guard rejects leaves the lock as it was.
C2_BreakOnMeasuredDrift ==
    /\ (/\ last.op = "fused"
        /\ last.pre.active
        /\ \/ last.fusion.driftDist > worldAnchorBreakDistance
           \/ last.fusion.driftAngle > worldAnchorBreakAngle)
           => (~worldAnchorActive /\ worldAnchorBuildup <= 1)
    /\ last.op = "jump" => worldAnchorActive = last.pre.active

C2_Witness ==
    /\ last.op = "fused"
    /\ last.pre.active
    /\ last.fusion.driftDist > worldAnchorBreakDistance
    /\ ~worldAnchorActive

\* C3, as stated: on each of up to five frames without the marker, inside the
\* hysteresis window, isTracking stays true and the pose is the one held
\* before the gap.
C3_TrackingThroughGap ==
    (/\ gapRun.len \in 1 .. 5
     /\ gapRun.start.isTracking
     /\ GapFrame
     /\ WithinTimeout)
        => /\ isTracking
           /\ poseTargetPosition = gapRun.pose.targetPos
           /\ poseTargetQuaternion = gapRun.pose.targetQuat

\* C3, amended: that holds while the world anchor is not active during the
\* gap: isTracking and the model stay on, the pose targets are the ones held
\* before the gap, and the displayed pose only eases towards them.
C3_TrackingThroughUnlockedGap ==
    (/\ gapRun.len \in 1 .. 5
     /\ gapRun.start.isTracking
     /\ ~gapRun.locked
     /\ WithinTimeout)
        => /\ isTracking
           /\ visible
           /\ poseTargetPosition = gapRun.pose.targetPos
           /\ poseTargetQuaternion = gapRun.pose.targetQuat
           /\ poseTargetPosition # Null
           /\ Abs(modelPos - Val(poseTargetPosition))
                 <= Abs(gapRun.pose.modelPos - Val(poseTargetPosition))

C3_Witness ==
    /\ gapRun.len = 5
    /\ gapRun.start.isTracking
    /\ ~gapRun.locked
    /\ WithinTimeout
    /\ isTracking

\* C4: a frame without detection that finds the hysteresis window exceeded
\* takes the lost transition: isTracking false, model hidden, position
\* history empty, pose targets cleared, hasFirstPose false, world anchor
\* inactive with build-up 0 and no reference pose.
C4_LostTransition ==
    (GapFrame /\ now - lastTrackingTime >= trackingTimeout)
        => /\ last.op = "lost"
           /\ ~isTracking
           /\ ~visible
           /\ positionHistory = << >>
           /\ poseTargetPosition = Null
           /\ poseTargetQuaternion = Null
           /\ ~hasFirstPose
           /\ ~worldAnchorActive
           /\ worldAnchorBuildup = 0
           /\ worldAnchorPos = Null
           /\ worldAnchorQuat = Null

C4_Witness ==
    /\ last.op = "lost"
    /\ last.pre.isTracking
    /\ last.pre.hasFirstPose
    /\ last.pre.active
    /\ ~isTracking
    /\ ~worldAnchorActive

\* C5, as stated: the first frame with a pose after tracking was lost (model
\* hidden, isTracking false) puts the model exactly at the measured pose.
C5_SnapAfterLoss ==
    (last.op = "fused" /\ ~last.pre.isTracking /\ ~last.pre.visible)
        => /\ modelPos = last.fusion.fusedRaw
           /\ modelQuat = last.fusion.fusedQuat

\* C6, as stated: of five candidates within 2 cm and one 50 cm away, the far
\* one is not in the surviving pool and the fused position is within 2 cm of
\* the centroid of the five.
C6_OutlierRejected ==
    (TrackedFrame /\ Len(last.frame) = 6 /\ Len(last.fusion.candidates) = 6)
        => /\ \A i \in 1 .. Len(last.fusion.pool) : last.fusion.pool[i].id # 6
           /\ Abs(last.fusion.fusedRaw - (BasePos + 10)) <= 20

\* C6, amended: that holds when the far candidate weighs no more than any
\* of the five.
C6_LightOutlierRejected ==
    (/\ TrackedFrame
     /\ Len(last.frame) = 6
     /\ Len(last.fusion.candidates) = 6
     /\ \A i \in 1 .. 5 :
           last.fusion.candidates[i].weight >= last.fusion.candidates[6].weight)
        => /\ \A i \in 1 .. Len(last.fusion.pool) : last.fusion.pool[i].id # 6
           /\ Len(last.fusion.pool) = 5
           /\ Abs(last.fusion.fusedRaw - (BasePos + 10)) <= 20

C6_Witness ==
    /\ TrackedFrame
    /\ Len(last.fusion.candidates) = 6
    /\ Len(last.fusion.pool) = 5
    /\ \A i \in 1 .. 5 : last.fusion.pool[i].id # 6

\* C7, as stated: two candidates 40 cm apart are not averaged: the fused
\* position is the position of a candidate of the highest weight, or no
\* candidate survives.
C7_NoMidpoint ==
    (TrackedFrame /\ last.frame = Disagree /\ Len(last.fusion.candidates) = 2)
        => \/ Len(last.fusion.pool) = 0
           \/ \E i \in 1 .. 2 :
                /\ \A j \in 1 .. 2 : last.fusion.candidates[i].weight
                                        >= last.fusion.candidates[j].weight
                /\ last.fusion.fusedRaw = last.fusion.candidates[i].position

\* C8, as stated: after 100 frames of one candidate at one pose the model is
\* within 1 mm and 0.1 degree (1.745 mrad) of that pose and isTracking is true.
C8_SteadyWithinOneMillimetre ==
    steadyRun.len = 100
        => /\ isTracking
           /\ Abs(modelPos - BasePos) <= 1
           /\ AngleTo(modelQuat, BaseYaw) * 1000 <= 1745

\* C8, amended: on an engine that showed no pose the model is at the pose
\* from the first frame on; when another pose was shown before, after 100
\* frames the model is within the rest deadband of the pose (3.5 mm, 0.02 rad).
C8_SteadyWithinDeadband ==
    /\ (steadyRun.len >= 1 /\ ~steadyRun.start.hasFirstPose)
          => /\ isTracking
             /\ visible
             /\ modelPos = BasePos
             /\ modelQuat = BaseYaw
             /\ poseTargetPosition = Some(BasePos)
             /\ poseTargetQuaternion = Some(BaseYaw)
    /\ steadyRun.len = 100
          => /\ isTracking
             /\ visible
             /\ Abs(modelPos - BasePos) * 10 < trackingPosDeadbandX10
             /\ AngleTo(modelQuat, BaseYaw) < trackingRotDeadband

C8_Witness ==
    /\ steadyRun.len = 100
    /\ ~steadyRun.start.hasFirstPose
    /\ isTracking
    /\ modelPos = BasePos

\* C9, as stated: every frame that ends with no valid candidate, the frames
\* whose observations were all rejected by the gates included, increments
\* framesWithoutDetection.
C9_DroppedFrameCounted ==
    (last.op = "nocand" \/ GapFrame)
        => framesWithoutDetection = last.pre.framesWithoutDetection + 1

\* C10, as stated: a frame without detection while the anchor is locked
\* leaves the anchor inactive.
C10_GapBreaksLock ==
    (GapFrame /\ last.pre.active) => ~worldAnchorActive

\* C10, amended: inside the hysteresis window the lock is kept and, from the
\* second missing frame on, the model is hidden and the pose targets are
\* cleared; the anchor becomes inactive when the window is exceeded.
C10_GapPausesLock ==
    (GapFrame /\ last.pre.active)
        => IF WithinTimeout
           THEN /\ worldAnchorActive
                /\ worldAnchorPos # Null
                /\ framesWithoutDetection > 1
                      => /\ last.op = "paused"
                         /\ ~isTracking
                         /\ ~visible
                         /\ poseTargetPosition = Null
           ELSE ~worldAnchorActive

C10_Witness ==
    /\ last.op = "paused"
    /\ last.pre.active
    /\ gapRun.len = 2
    /\ worldAnchorActive
    /\ ~visible

TrackingStateOf(e) ==
    << e.isTracking, e.visible, e.modelPos, e.modelQuat, e.poseTargetPosition,
       e.poseTargetQuaternion, e.positionHistory, e.measurementConfidenceEMA,
       e.poolSpreadEMA, e.viewAngleEMA, e.worldAnchorActive, e.worldAnchorPos,
       e.worldAnchorQuat, e.worldAnchorBuildup, e.lastTrackingTime,
       e.framesWithoutDetection >>

\* C12, as stated: a frame whose observations are all dropped for an unknown
\* marker id or a too-small perimeter leaves the tracking state as the same
\* frame without those observations leaves it.
C12_DropHasNoSideEffect ==
    [][ (last'.frame \in {TinyOnly, UnknownOnly}
         /\ last'.op \in {"nocand", "held", "paused", "lost"})
            => TrackingStateOf(Engine')
                 = TrackingStateOf(HandleTrackingLost(Engine, now').e) ]_vars

\* TrackingState and WorldAnchorState as the specification lists them
TrackingState ==
    << modelPos, modelQuat, positionHistory, measurementConfidenceEMA,
       poolSpreadEMA, viewAngleEMA, hasFirstPose, framesWithoutDetection >>

WorldAnchorState ==
    << worldAnchorActive, worldAnchorPos, worldAnchorQuat, worldAnchorBuildup >>

\* C13, as stated: only the fusion update changes TrackingState and
\* WorldAnchorState; the render tick and the public calls leave both as they
\* are.
C13_OnlyFusionMutates ==
    [][ last'.op \in {"render", "force", "release"}
          => (TrackingState' = TrackingState
              /\ WorldAnchorState' = WorldAnchorState) ]_vars

\* C13, amended: the render tick leaves WorldAnchorState, the history, the
\* EMAs, hasFirstPose and the dropped-frame counter alone and only eases the
\* model pose towards the pose targets; forceWorldAnchorLock and
\* releaseWorldAnchor leave TrackingState alone and write WorldAnchorState:
\* the release empties it, the forced lock sets it to the model pose with the
\* build-up at its target, or changes nothing when tracking is not fresh.
C13_RenderAndPublicCalls ==
    [][ /\ last'.op = "render"
            => /\ WorldAnchorState' = WorldAnchorState
               /\ << positionHistory, measurementConfidenceEMA, poolSpreadEMA,
                     viewAngleEMA, hasFirstPose, framesWithoutDetection >>'
                    = << positionHistory, measurementConfidenceEMA,
                         poolSpreadEMA, viewAngleEMA, hasFirstPose,
                         framesWithoutDetection >>
               /\ << isTracking, visible, poseTargetPosition,
                     poseTargetQuaternion >>'
                    = << isTracking, visible, poseTargetPosition,
                         poseTargetQuaternion >>
               /\ modelPos' # modelPos
                    => /\ isTracking /\ poseTargetPosition # Null
                       /\ Abs(modelPos' - Val(poseTargetPosition))
                            < Abs(modelPos - Val(poseTargetPosition))
        /\ last'.op \in {"force", "release"}
            => TrackingState' = TrackingState
        /\ last'.op = "release"
            => WorldAnchorState' = << FALSE, Null, Null, 0 >>
        /\ last'.op = "force"
            => \/ WorldAnchorState' = WorldAnchorState
               \/ /\ isTracking /\ visible
                  /\ WorldAnchorState' = << TRUE, Some(modelPos),
                                            Some(modelQuat),
                                            worldAnchorBuildupTarget >> ]_vars

C13_Witness ==
    /\ last.op = "force"
    /\ ~last.pre.active
    /\ worldAnchorActive
    /\ worldAnchorPos = Some(modelPos)
    /\ worldAnchorBuildup = worldAnchorBuildupTarget

\* the norm of q is 1 to within one unit of the components
UnitNorm(q) == Abs(QuatDot(q, q) - QuatUnit * QuatUnit) <= 2 * QuatUnit

\* C14: after any sequence of calls the quaternion of QuaternionFilter (once
\* it holds one) and the quaternion of QuaternionEKF have norm 1, to within
\* the rounding of one operation.
C14_UnitQuaternion ==
    /\ qfCurrent # Null => UnitNorm(Val(qfCurrent))
    /\ UnitNorm(ekfQ)

C14_Witness ==
    /\ fcalls = QuatCalls
    /\ flast.op = "ekf.update"
    /\ ekfQ # flast.pre
    /\ qfCurrent # Null
    /\ Val(qfCurrent) \notin QuatInputs \cup {QuatIdentity}
    /\ UnitNorm(ekfQ)

\* C15: when the measured quaternion lies on the other hemisphere of current
\* (dot < 0), for current = (0, 0, 0, 1) and for every other current,
\* QuaternionFilter.update leaves a result with dot(result, current) >= 0.
C15_ShortestPath ==
    (/\ flast.op = "qf.update"
     /\ flast.pre # Null
     /\ QuatDot(Val(flast.pre), flast.measured) < 0)
        => QuatDot(Val(qfCurrent), Val(flast.pre)) >= 0

C15_Witness ==
    /\ flast.op = "qf.update"
    /\ flast.pre = Some(QuatIdentity)
    /\ QuatDot(QuatIdentity, flast.measured) < 0
    /\ qfCurrent # flast.pre
    /\ QuatDot(Val(qfCurrent), QuatIdentity) > 0

\* the distance of the filter's position from the constant target
ConvergeError == Abs(Val(pfCurrent) - ConvergeTarget)

\* C16 as stated: after 200 updates with the same target the position is
\* within 1e-3 (1000 micrometres) of the target, from any start.
C16_WithinOneMillimetre ==
    (flast.op = "pf.feed" /\ pfRun = ConvergenceUpdates) => ConvergeError <= 1000

\* C16: after 200 updates with the same target (dt = 1/30, confidence 1) the
\* position is within positionDeadband of the target, from any start; a
\* start closer than positionDeadband is never moved.
C16_WithinDeadband ==
    /\ (flast.op = "pf.feed" /\ pfRun = ConvergenceUpdates)
            => ConvergeError < positionDeadband
    /\ (flast.op = "pf.feed" /\ Abs(flast.start - ConvergeTarget) < positionDeadband)
            => Val(pfCurrent) = flast.start

C16_Witness ==
    /\ flast.op = "pf.feed"
    /\ pfRun = ConvergenceUpdates
    /\ Abs(flast.start - ConvergeTarget) > 1000000 \div 2
    /\ ConvergeError < positionDeadband

\* the call was an update with measured inside the deadband of current
InDeadband ==
    /\ flast.op = "pf.update"
    /\ flast.pre.current # Null
    /\ Abs(flast.measured - Val(flast.pre.current)) < positionDeadband

\* C17 as stated: in the deadband, update leaves the position as it was and
\* changes nothing but the velocity, which it multiplies by velocityDamping.
C17_OnlyDamping ==
    InDeadband => /\ pfCurrent = flast.pre.current
                  /\ pfVelocity = Damped(flast.pre.velocity)
                  /\ pfLastMeasurement = flast.pre.lastMeasurement

\* C17: in the deadband, update leaves the position as it was; the velocity
\* is first blended towards the clamped instantaneous velocity (when
\* dt > 0.001) and then multiplied by velocityDamping, and lastMeasurement
\* becomes the measured position.
C17_DeadbandHoldsPosition ==
    InDeadband => /\ pfCurrent = flast.pre.current
                  /\ pfVelocity = Damped(VelocityEstimate(flast.pre, flast.measured, flast.dt))
                  /\ pfLastMeasurement = Some(flast.measured)

C17_Witness ==
    /\ InDeadband
    /\ pfCurrent = flast.pre.current
    /\ flast.pre.velocity # Some(0)
    /\ pfVelocity # Damped(flast.pre.velocity)
    /\ pfLastMeasurement # flast.pre.lastMeasurement

\* the history after a step: cleared, or cut to its newest entries, or the
\* fused position appended and the oldest entry evicted
FifoStep ==
    \/ positionHistory' = << >>
    \/ positionHistory' = Newest(positionHistory, positionHistorySize')
    \/ /\ last'.op \notin {"render", "historySize"}
       /\ positionHistory'
              = Newest(Append(positionHistory, last'.fusion.fusedRaw),
                       positionHistorySize)

\* C18: the length of positionHistory never exceeds the configured size, the
\* configured size is always in 1..15, and every step appends at the end and
\* evicts from the front.
C18_BoundedFifo ==
    /\ [](/\ Len(positionHistory) <= positionHistorySize
          /\ positionHistorySize \in 1 .. 15)
    /\ [][FifoStep]_vars

C18_Witness ==
    /\ last.op = "historySize"
    /\ positionHistorySize = 2
    /\ Len(positionHistory) = 2
    /\ positionHistory[1] # positionHistory[2]
    /\ now >= 500

\* the values the engine is configured with, in the units of the parameters
Configured ==
    [ adaptiveTrackWindow |-> tuning.trackWindow,
      adaptiveOutlierDistance |-> tuning.outlierDistance,
      adaptiveConfidenceThreshold |-> tuning.confidenceThreshold,
      adaptiveObliqueSoftLimitDeg |-> tuning.softLimitDeg * 1000,
      adaptiveObliqueRejectDeg |-> tuning.rejectDeg * 1000 ]

\* C19: with adaptive tuning disabled, _calculateAdaptiveParameters returns
\* the configured values, whatever the noise score.
C19_ConfiguredValues ==
    (tlast.op = "calc" /\ ~tuning.enabled) => tlast.params = Configured

\* p is at least as conservative as q: wider track window, shorter outlier
\* distance, higher confidence threshold, lower oblique limits
Tighter(p, q) ==
    /\ p.adaptiveTrackWindow >= q.adaptiveTrackWindow
    /\ p.adaptiveOutlierDistance <= q.adaptiveOutlierDistance
    /\ p.adaptiveConfidenceThreshold >= q.adaptiveConfidenceThreshold
    /\ p.adaptiveObliqueSoftLimitDeg <= q.adaptiveObliqueSoftLimitDeg
    /\ p.adaptiveObliqueRejectDeg <= q.adaptiveObliqueRejectDeg

\* C20: with adaptive tuning enabled the parameters are monotone in the noise
\* score (and the confidence threshold in the view angle): more noise never
\* makes any of them less conservative, the track window is the base at zero
\* noise and above it at any other.
C20_MonotoneInNoise ==
    tuning.enabled =>
        /\ \A n1, n2 \in NoiseScores, v \in ViewAngles :
              n1 <= n2 => Tighter(CalculateAdaptiveParametersFor(tuning, n2, v),
                                  CalculateAdaptiveParametersFor(tuning, n1, v))
        /\ \A n \in NoiseScores, v1, v2 \in ViewAngles :
              v1 <= v2 => CalculateAdaptiveParametersFor(tuning, n, v2).adaptiveConfidenceThreshold
                            >= CalculateAdaptiveParametersFor(tuning, n, v1).adaptiveConfidenceThreshold
        /\ \A v \in ViewAngles :
              CalculateAdaptiveParametersFor(tuning, 0, v).adaptiveTrackWindow
                  = BaseParameters(tuning).adaptiveTrackWindow
        /\ \A n \in NoiseScores \ {0}, v \in ViewAngles :
              CalculateAdaptiveParametersFor(tuning, n, v).adaptiveTrackWindow
                  > BaseParameters(tuning).adaptiveTrackWindow

C20_Witness ==
    /\ tuning.enabled
    /\ tlast.op = "calc"
    /\ tlast.noise = 500
    /\ tlast.params.adaptiveTrackWindow > BaseParameters(tuning).adaptiveTrackWindow
    /\ tlast.params.adaptiveOutlierDistance < BaseParameters(tuning).adaptiveOutlierDistance
    /\ tlast.params.adaptiveConfidenceThreshold > BaseParameters(tuning).adaptiveConfidenceThreshold
    /\ tlast.params.adaptiveObliqueSoftLimitDeg < BaseParameters(tuning).adaptiveObliqueSoftLimitDeg
    /\ tlast.params.adaptiveObliqueRejectDeg < BaseParameters(tuning).adaptiveObliqueRejectDeg

\* C21: after a tracked pose on the engine of src/utils both filters have
\* been called (reset on the first pose, update on the later ones) and the
\* pose target position is the position filter's output.
C21_FiltersUsed ==
    last.op = "single.tracked" =>
        /\ pfCurrent # Null
        /\ qfCurrent # Null
        /\ poseTargetPosition = pfCurrent

\* C22: the preset "minimal" calls setFilterParams with positionSmoothing 0.05
\* and setAnchorBoost with 1.0, the preset "mobile" with 0.08 and 2.5.
C22_PresetArguments ==
    tlast.op = "preset" =>
        /\ tlast.name = "minimal" =>
              tlast.setFilterParams = 50 /\ tlast.setAnchorBoost = Some(1000)
        /\ tlast.name = "mobile" =>
              tlast.setFilterParams = 80 /\ tlast.setAnchorBoost = Some(2500)

\* the reading of the clock at which the explored runs end
RecoverEnd == 100 + RecoverTicks * 100

\* every detection result after the first is this frame
OnlyFrame(frame) == (now > 200 /\ last.op # "render") => last.frame = frame

\* tracking is off, or the displayed pose has come at least half the way from
\* the steady pose to the pose of the frame
Recovered(frame) ==
    ~isTracking \/ 2 * Abs(modelPos - frame[1].x) <= Abs(BasePos - frame[1].x)

\* the claim for one fixed pose, on the runs in which the worker keeps
\* answering until the clock reaches RecoverEnd
RecoversAt(frame) ==
    (<>(now = RecoverEnd) /\ []OnlyFrame(frame)) => <>[]Recovered(frame)

\* C23: when from some frame on every detection reports the markers at one
\* fixed pose, at any distance from the displayed pose, then from some moment
\* on the displayed pose approaches that pose or isTracking is false.
C23_EventualRecovery == \A frame \in RecoverFrames : RecoversAt(frame)

\* the 'frame' messages the worker has not taken yet and the 'result'
\* messages the main thread has not taken yet
CountType(queue, type) ==
    Cardinality({ i \in 1..Len(queue) : queue[i].type = type })
FramesInFlight == CountType(inbox, "frame") + CountType(outbox, "result")

\* C24: at most one detection frame is in flight between the main thread and
\* the worker at any time, whatever the order of 'ready', 'log', 'error' and
\* 'result' messages and turns of the render loop.
C24_OneFrameInFlight == FramesInFlight <= 1

\* C25: whenever the busy flag is set it is eventually cleared: every frame
\* sent to the worker is answered by 'result' or 'error', or the dispatch
\* fails on the main thread.
C25_BusyClears == workerBusy ~> ~workerBusy

\* the largest value _calculateAdaptiveParameters gives adaptiveOutlierDistance
maxAdaptiveOutlierDistance == 520

\* every member of the pool is one of the candidates
FromCandidates(pool, candidates) ==
    \A i \in 1 .. Len(pool) : \E j \in 1 .. Len(candidates) :
        pool[i] = candidates[j]

\* the pool after the first and after the second pass, for the cutoff d
AfterPasses(candidates, d) ==
    LET pass1 == IF Len(candidates) > 1 THEN ClipPass(candidates, d)
                 ELSE candidates
    IN  << pass1, IF Len(pass1) > 1 THEN ClipPass(pass1, d) ELSE pass1 >>

\* C26: when at least one candidate enters fusion, the pool is non-empty
\* after every sigma-clipping pass, whatever the outlier distance, and the
\* pool the frame fuses is a non-empty selection of the candidates.
C26_PoolNeverEmpty ==
    Len(last.fusion.candidates) >= 1
        => /\ Len(last.fusion.pool) >= 1
           /\ FromCandidates(last.fusion.pool, last.fusion.candidates)
           /\ \A d \in {80, 180, 350, maxAdaptiveOutlierDistance} :
                 \A k \in 1 .. 2 :
                    Len(AfterPasses(last.fusion.candidates, d)[k]) >= 1

\* a frame whose candidates all lie beyond the largest cutoff from their
\* centroid: the pass would drop them all, and the pool is kept whole
C26_Witness ==
    /\ Len(last.fusion.candidates) >= 2
    /\ \A i \in 1 .. Len(last.fusion.candidates) :
          Abs(last.fusion.candidates[i].position
                - WeightedCentroid(last.fusion.candidates))
              > maxAdaptiveOutlierDistance
    /\ Len(last.fusion.pool) = Len(last.fusion.candidates)

\* the candidate c lies within every gate, for the reference ref and the
\* adaptive parameters ap of the frame
WithinGates(c, ref, ap) ==
    /\ c.perimeter >= minMarkerPerimeter
    /\ c.poseError <= maxPoseErrorForFusion
    /\ c.cameraAngleDeg * 1000 <= ap.adaptiveObliqueRejectDeg
    /\ c.confidence >= ap.adaptiveConfidenceThreshold
    /\ (ref # Null =>
          Abs(c.position - Val(ref)) <= 2 * ap.adaptiveOutlierDistance)

\* C27: every candidate a frame admits to fusion passed all gates, taken
\* with the reference and the adaptive parameters the engine had when the
\* frame arrived: perimeter, pose error, camera angle, confidence, and the
\* distance from the reference when there is one.
C27_AdmittedPassedGates ==
    [][ \A i \in 1 .. Len(last'.fusion.candidates) :
           WithinGates(last'.fusion.candidates[i],
                       ReferencePosForGate(Engine),
                       AdaptiveParameters(Engine)) ]_vars

\* a frame with a reference that admitted one marker and dropped the other
C27_Witness ==
    /\ last.pre.hasFirstPose
    /\ Len(last.frame) = 2
    /\ Len(last.fusion.candidates) = 1

\* C28: a tracked frame that finds the lock active and leaves it active
\* moves the reference position toward the fused position by a lerp factor
\* of at most 2 x worldAnchorCorrectionAlpha and the reference orientation
\* by at most 2 x worldAnchorRotCorrectionAlpha (one unit of rounding
\* allowed); the reference is never replaced by the pose of the frame.
C28_SlowReference ==
    [][ ( /\ worldAnchorActive /\ worldAnchorActive'
          /\ last'.op = "fused"
          /\ worldAnchorPos # Null /\ worldAnchorQuat # Null )
        => /\ 1000 * Abs(Val(worldAnchorPos') - Val(worldAnchorPos))
                <= 2 * worldAnchorCorrectionAlpha
                     * Abs(last'.fusion.fusedPos - Val(worldAnchorPos)) + 1000
           /\ 1000 * AngleTo(Val(worldAnchorQuat), Val(worldAnchorQuat'))
                <= 2 * worldAnchorRotCorrectionAlpha
                     * AngleTo(Val(worldAnchorQuat), last'.fusion.fusedQuat)
                   + 1000 ]_vars

\* two or more survivors, all within worldAnchorMaxAgreeDist of each other
Qualifying(pool) ==
    /\ Len(pool) >= worldAnchorMinMarkers
    /\ MaxSpread(pool) <= worldAnchorMaxAgreeDist

\* the step is a fused frame that engages the lock
Engages ==
    /\ ~worldAnchorActive /\ worldAnchorActive'
    /\ last'.op = "fused"

Counted(b, pool) ==
    IF Len(pool) >= worldAnchorMinMarkers
    THEN IF MaxSpread(pool) <= worldAnchorMaxAgreeDist
         THEN b + 1 ELSE Max(0, b - 1)
    ELSE Max(0, b - 2)

\* C30, as stated: on every tracked frame after the first pose the counter
\* changes by +1 when two or more survivors agree, by -1 floored at 0 when
\* they do not agree, by -2 floored at 0 with fewer than two survivors, and
\* it is never negative.
C30_CounterStep ==
    [][ (hasFirstPose /\ last'.op = "fused")
        => /\ worldAnchorBuildup' =
                 Counted(worldAnchorBuildup, last'.fusion.pool)
           /\ worldAnchorBuildup' >= 0 ]_vars

\* C30, amended: the rule holds on every fused frame after the first pose
\* that leaves the lock as it found it or engages it; a frame that releases
\* the lock first resets the counter to 0 and then applies the rule, a
\* frame rejected by the jump guard leaves the counter as it is, and the
\* counter is never negative.
C30_CounterStepOrReset ==
    [][ /\ (hasFirstPose /\ last'.op = "fused")
            => worldAnchorBuildup' =
                  Counted(IF worldAnchorActive /\ ~worldAnchorActive' THEN 0
                          ELSE worldAnchorBuildup,
                          last'.fusion.pool)
        /\ last'.op = "jump" => worldAnchorBuildup' = worldAnchorBuildup
        /\ worldAnchorBuildup' >= 0 ]_vars

\* a frame of two agreeing survivors broke the lock: the counter went from
\* 6 or more to 1
C30_Witness ==
    /\ last.op = "fused"
    /\ last.pre.active /\ ~worldAnchorActive
    /\ last.pre.buildup >= worldAnchorBuildupTarget
    /\ worldAnchorBuildup = 1

\* the last call was a fused frame that turned the lock active
Engaged ==
    /\ last.op = "fused"
    /\ ~last.pre.active
    /\ worldAnchorActive

\* C31: a frame of the fusion path turns the lock from inactive to active
\* only when its surviving pool has at least worldAnchorMinMarkers
\* candidates whose largest pairwise distance is within
\* worldAnchorMaxAgreeDist; a single survivor or a disagreeing pool never
\* engages the lock.
C31_EngagesOnAgreeingPool ==
    /\ Engaged => Qualifying(last.fusion.pool)
    /\ (last.op \in {"fused", "jump", "nocand"} /\ ~last.pre.active
          /\ ~Qualifying(last.fusion.pool)) => ~worldAnchorActive

\* the lock engaged on a frame of two agreeing survivors that found the
\* counter one below the target
C31_Witness ==
    /\ Engaged
    /\ Qualifying(last.fusion.pool)
    /\ last.pre.buildup = worldAnchorBuildupTarget - 1

\* the distance of the fused pose f from the displayed pose is beyond the
\* break thresholds scaled by fastRepositionUnlockRatio
BeyondUnlock(posDelta, rotDelta) ==
    \/ posDelta * 1000 > worldAnchorBreakDistance * fastRepositionUnlockRatio
    \/ rotDelta * 1000 > worldAnchorBreakAngle * fastRepositionUnlockRatio

\* C32: a fused frame that finds the lock active, has fast-reposition
\* intent and a fused pose farther from the displayed pose than
\* worldAnchorBreakDistance x fastRepositionUnlockRatio (or turned by more
\* than worldAnchorBreakAngle x ratio) leaves the lock released: the
\* build-up that follows in the same frame does not engage it again.
C32_EarlyUnlock ==
    [][ ( /\ worldAnchorActive /\ hasFirstPose
          /\ last'.op = "fused"
          /\ FastRepositionIntent(Len(last'.fusion.pool), TRUE,
                 Abs(modelPos - last'.fusion.fusedPos),
                 AngleTo(modelQuat, last'.fusion.fusedQuat))
          /\ BeyondUnlock(Abs(modelPos - last'.fusion.fusedPos),
                          AngleTo(modelQuat, last'.fusion.fusedQuat)) )
        => /\ ~worldAnchorActive'
           /\ worldAnchorBuildup' < worldAnchorBuildupTarget ]_vars

\* a frame within the break distance and angle of the reference released
\* the lock: the early unlock, not the drift check
C32_Witness ==
    /\ last.op = "fused"
    /\ last.pre.active /\ ~worldAnchorActive
    /\ last.fusion.driftDist >= 0
    /\ last.fusion.driftDist <= worldAnchorBreakDistance
    /\ last.fusion.driftAngle <= worldAnchorBreakAngle

\* C33: at most one chain of the render loop is alive: there is never more
\* than one requested animation frame that will run _loop, whatever the
\* order of init, stop, WebXR start and WebXR end.
C33_OneLoopChain == Cardinality(pending) <= 1

C35_TrackingIsVisible ==
    [][ (now' # now
         /\ last'.op \in {"fused", "jump", "nocand", "held", "paused", "lost"})
        => /\ isTracking' <=> visible'
           /\ isTracking' => /\ poseTargetPosition' # Null
                             /\ poseTargetQuaternion' # Null ]_vars

\* C36: a frame rejected by the single-marker jump guard leaves the tracking
\* state as it was: the pose, the pose targets, the position history, the
\* EMAs of confidence, spread and view angle, and the world-anchor state.
C36_RejectedFrameNoEffect ==
    [][ (now' # now /\ last'.op = "jump")
        => /\ modelPos' = modelPos
           /\ modelQuat' = modelQuat
           /\ poseTargetPosition' = poseTargetPosition
           /\ poseTargetQuaternion' = poseTargetQuaternion
           /\ positionHistory' = positionHistory
           /\ measurementConfidenceEMA' = measurementConfidenceEMA
           /\ poolSpreadEMA' = poolSpreadEMA
           /\ viewAngleEMA' = viewAngleEMA
           /\ worldAnchorActive' = worldAnchorActive
           /\ worldAnchorBuildup' = worldAnchorBuildup
           /\ worldAnchorPos' = worldAnchorPos
           /\ worldAnchorQuat' = worldAnchorQuat ]_vars

\* C37: a call of PredictivePositionFilter.predict(dt) moves current by at
\* most maxPredictionStep, whatever dt and the velocity are; on a filter
\* that was never initialised it returns null and changes nothing.
C37_PredictStepBounded ==
    flast.op = "pf.predict" =>
        IF flast.pre.current = Null
        THEN PfState = flast.pre /\ pfCurrent = Null
        ELSE Abs(Val(pfCurrent) - Val(flast.pre.current)) <= maxPredictionStep

\* the velocity and the interval ask for more than the largest step
C37_Witness ==
    /\ flast.op = "pf.predict"
    /\ flast.pre.current # Null
    /\ flast.pre.velocity # Null
    /\ Val(flast.pre.velocity) * Min(maxPredictionDt, flast.dt) * predictionFactor
           > maxPredictionStep * 1000
    /\ Val(pfCurrent) - Val(flast.pre.current) = maxPredictionStep

\* C38: after any sequence of reset, update and predict the magnitude of the
\* smoothed velocity is at most maxVelocity.
C38_VelocityBounded ==
    pfVelocity # Null => Abs(Val(pfVelocity)) <= maxVelocity

\* a measurement delta faster than maxVelocity went into the estimate
C38_Witness ==
    /\ flast.op = "pf.update"
    /\ flast.pre.lastMeasurement # Null
    /\ Abs(flast.measured - Val(flast.pre.lastMeasurement))
           > maxVelocity * flast.dt
    /\ pfVelocity # Null
    /\ 2 * Abs(Val(pfVelocity)) > maxVelocity

\* the cosine of half the rotation angle between two unit quaternions, as
\* Quaternion.angleTo takes it: the angle shrinks exactly when it grows
HalfAngleCos(a, b) == Abs(QuatDot(a, b))

\* C39: QuaternionEKF.update(measured) never increases the rotation angle
\* between the orientation of the filter and measured, to within the rounding
\* of one operation, also when measured has the opposite sign (dot < 0).
C39_UpdateApproaches ==
    flast.op = "ekf.update" =>
        HalfAngleCos(ekfQ, flast.input) + 2 * QuatUnit
            >= HalfAngleCos(flast.pre, flast.input)

====
